---------------------------- MODULE Spec2Model ----------------------------
(***************************************************************************)
(* Model of the WebRTS client (CeeblueTV/wrts-client).                     *)
(*                                                                         *)
(* Part 1: the Player (src/Player.ts, held in src/index.ts): buffer-state  *)
(*         machine, start/stop lifecycle, the shared timeout slot, the     *)
(*         dynamic playback rate and the buffer thresholds.                *)
(* Part 2: the Source timestamp repair (src/src/sources/Source.ts).        *)
(*                                                                         *)
(* Times are integers in milliseconds.  The playback rate is held in       *)
(* percent (100 = 1.0, 108 = 1.08, 92 = 0.92).                             *)
(***************************************************************************)
EXTENDS Integers, Sequences, FiniteSets, TLC

(***************************************************************************)
(* Program constants                                                       *)
(***************************************************************************)
PAST_BUFFER == 20000

BUFFER_LIMIT_LOW == 150

BUFFER_LIMIT_HIGH == 550

TIMEOUT == 14000

TIMESTAMP_HOLE_TOLERANCE == 7

(***************************************************************************)
(* Bounds of the model                                                     *)
(***************************************************************************)
\* largest media time (ms) of the playback buffer and of the playhead
MaxTime == 4

\* the buffer limits assigned during playback are 0 and MaxLimit
MaxLimit == 3

\* largest value assigned to bufferLimitLow / bufferLimitHigh on a stopped player
MaxAssign == 12

\* largest explicit idleTimeout passed to Player.start (0 stands for "not given")
MaxIdle == 2

\* number of timer identifiers the host can hand out at the same time
MaxTimers == 3

\* largest sample time and duration ingested by the Source
MaxSampleTime == 7

MaxSampleDuration == 1

\* largest end time the Source is followed to
MaxSourceTime == 8

\* largest live time announced by the metadata
MaxLive == 1

\* largest correction of the live time the Source is followed to
MaxFixLive == 2

\* largest sample time read when holes and overlaps of any size are followed
MaxRepairTime == 9

\* largest number of tracks of a manifest, and largest bandwidth of a track
MaxTracks == 3

MaxTrackBandwidth == 2

\* most calls of fix() on one Metadata
MaxFixes == 3

\* most samples written to a MediaBuffer, largest track id given to it, most calls of close
MaxWritten == 2
MaxBufferTrack == 1
MaxCloseCalls == 2

\* the step of the clock read by AdaptiveRetry and the time it is followed to, ms
TimeStep == 1500
MaxNow == 150000

\* most samples a Source is given while its first samples are followed, and the ids
\* of the audio and of the video tracks they come with
MaxArrivals == 4

\* the download of a video sequence: the value of max-sequence-duration, the value of
\* first-frame-length, the chunks of a body and the requests sent for one sequence
MaxWindow == 3

FirstFrameLength == 2

MaxChunks == 3

MaxRequests == 3

\* a CMAFWriter: the calls of init and of write, the bytes of a codec configuration,
\* the subsamples and the bytes of a sample, the pssh boxes of a protection and the
\* bytes of each
MaxInits == 1

\* the sessions a Player starts
MaxSessions == 3

MaxFragments == 2

MaxConfig == 2

MaxSubSamples == 2

MaxData == 2

MaxPssh == 1

PsshLength == 32
AudioIds == {0, 1}
VideoIds == {2}

\* largest sequence id the adaptive loop is followed to
MaxSequence == 3

\* largest live time the wall clock is followed to
MaxLiveTime == 4

\* largest video end time the downloads of the adaptive loop are followed to
MaxDownloadTime == 1

\* largest receive rate measured
MaxBandwidth == 4

\* the tracks of the packets sent to a reader are 0..MaxTrack
MaxTrack == 1

\* largest absolute time carried by a packet
MaxPacketTime == 2

\* largest duration carried by a packet
MaxPacketDuration == 2

\* largest payload of a packet, in bytes
MaxPayload == 2

\* largest end time of a packet sent
MaxStreamTime == 4

\* the packets of a stream that the reader has not finished
MaxPending == 2

\* number of video renditions of the stream, their track ids being 0..NVideo-1 by
\* decreasing bandwidth; the audio track has the id NVideo
NVideo == 3

(***************************************************************************)
(* Helpers                                                                 *)
(***************************************************************************)
Max(a, b) == IF a >= b THEN a ELSE b

Min(a, b) == IF a <= b THEN a ELSE b

\* Math.round(n / 2) for an integer n: halves round towards +Infinity
RoundHalf(n) == (n + 1) \div 2

NoTimeout == [id |-> 0, value |-> 0]

TimerIds == 1..MaxTimers

TimeoutNames == {"Start timeout", "Connection timeout", "Data timeout"}

BufferStates == {"NONE", "LOW", "OK", "HIGH"}

NoError == "none"

\* no sample handed over (nothing read, or the sample of a disabled track)
NoSample == [kind |-> "none", time |-> 0, repair |-> "kept"]

\* undefined, for a track or a sequence
Undefined == -2

\* {}: no track given
NoTracks == [audio |-> Undefined, video |-> Undefined]

\* no call of _setTracks
NoCall == [audio |-> -3, video |-> -3]

\* Metadata.videoTracks and Metadata.audioTracks after Metadata.fix: the ids of the
\* tracks by decreasing bandwidth
VideoTracks == [i \in 1..NVideo |-> i - 1]

AudioTracks == <<NVideo>>

\* Infinity, the first value of newSequence
Infinity == 99

\* the value of the max-sequence-duration header of the stream
SequenceDuration == 2

\* MediaTrack.bandwidth of the video renditions (the two lowest are equal) and of
\* the audio track
Bandwidth(track) == Max(NVideo - track, 2)

AudioBandwidth == 1

\* no rendition selection made
NoDecision == [from |-> Undefined, to |-> Undefined, branch |-> "none", measure |-> 0]

\* no end of a round or of a probe: kind is "none", "round" or "probe"
NoAnswer == [kind |-> "none", ok |-> 0, from |-> Undefined, to |-> Undefined]

\* a request sent: kind is "manifest", "probe", "audio", "video" or "up"
Request(kind, track, seq, method) ==
    [kind |-> kind, track |-> track, sequence |-> seq, method |-> method]

\* a track value that passes "if (tracks.video)"
Truthy(n) == n # Undefined /\ n # 0

Ev(name) == [e |-> name, old |-> "", new |-> "", ba |-> 0]

BufferStateEv(oldState, newState, amount) ==
    [e |-> "BufferState", old |-> oldState, new |-> newState, ba |-> amount]

VARIABLES
    \* Player fields
    timeout,            \* _timeout: NoTimeout (undefined) or [id, value]
    buffering,          \* _buffering
    paused,             \* _paused
    bufferState,        \* _bufferState
    bufferLimitLow,     \* _bufferLimitLow
    bufferLimitHigh,    \* _bufferLimitHigh
    bufferLimitMiddle,  \* _bufferLimitMiddle
    source,             \* _source is defined
    reliable,           \* _source._reliable
    mediaSource,        \* _mediaSource: "none" (undefined), "closed" or "open"
    onsourceopen,       \* _mediaSource.onsourceopen is set
    onsourceclose,      \* _mediaSource.onsourceclose is set
    playback,           \* _playback is defined
    listening,          \* the video listeners of start() are attached
    \* MediaPlayback fields
    buffers,            \* a MediaBuffer has been created
    startTime,          \* MediaPlayback.startTime
    endTime,            \* MediaPlayback.endTime
    endPrevTime,        \* MediaPlayback._endPrevTime (-1 = undefined)
    \* HTMLVideoElement
    currentTime,        \* video.currentTime
    videoPaused,        \* video.paused
    playbackRate,       \* video.playbackRate in percent
    playPending,        \* a promise of video.play() is not settled yet
    \* host
    timers,             \* pending setTimeout callbacks: [id, name, left, dur]
    hasMediaSource,     \* window.MediaSource / WebKitMediaSource exists
    hasManaged,         \* window.ManagedMediaSource exists
    \* observation of the run
    events,             \* what the last handler emitted, in order
    openSessions,       \* sessions armed by Player.start minus onStop calls
    stopError,          \* error passed to the last onStop
    armed,              \* name of the timeout armed last
    idleGiven,          \* idleTimeout argument of the last Player.start
    \* Source fields (timestamp repair)
    audioTime,          \* _audioTime
    videoTime,          \* _videoTime
    dataTime,           \* _dataTime
    hasMetadata,        \* _metadata is defined
    liveTime,           \* _metadata.liveTime read now
    fixLiveTime,        \* _fixLiveTime
    lastSample          \* the sample the last handler handed to _onSample / onData, after repair

playerVars == <<timeout, buffering, paused, bufferState, bufferLimitLow, bufferLimitHigh,
                bufferLimitMiddle, source, reliable, mediaSource, onsourceopen, onsourceclose,
                playback, listening, buffers, startTime, endTime, endPrevTime, currentTime,
                videoPaused, playbackRate, playPending, timers, hasMediaSource, hasManaged,
                events, openSessions, stopError, armed, idleGiven>>

sourceVars == <<audioTime, videoTime, dataTime, hasMetadata, liveTime, fixLiveTime, lastSample>>

VARIABLES
    \* Source fields (life cycle and track selection)
    closed,             \* _closed
    running,            \* _running
    selectedTracks,     \* _selectedTracks: [audio, video], Undefined for automatic
    requestedTracks,    \* _requestedTracks: [audio, video]
    trackRequest,       \* _trackRequest is set
    \* host and transport
    trackTimers,        \* scheduled callbacks of the setTimeout of _selectTracks
    wireTracks,         \* the selection the transport has been given last
    setTracksCall       \* the selection of the _setTracks call of the last handler, or NoCall

selectVars == <<closed, running, selectedTracks, requestedTracks, trackRequest, trackTimers,
                wireTracks, setTracksCall>>

VARIABLES
    \* HTTPAdaptiveSource: fields and the locals of _play
    pc,                  \* where _play waits: "idle", "manifest", "probe", "download", "returned"
    subscribed,          \* the BufferState and Stall listeners of _play are registered
    stall,               \* stall
    again,               \* again
    sequence,            \* sequence
    newSequence,         \* newSequence
    skipFixLiveTime,     \* fixLiveTime of the frame skipping
    prevVideoTime,       \* prevVideoTime
    prevVideoSequence,   \* prevVideoSequence
    audioAborted,        \* _audioController.signal.aborted
    videoAborted,        \* _videoController.signal.aborted
    upController,        \* _upController: "none" (undefined), "live" or "aborted"
    maxSequenceDuration, \* _maxSequenceDuration
    appreciating,        \* adaptiveRetry._appreciationTime is set
    roundOk,             \* the number of responses of the round received so far that are ok
    roundError,          \* a response of the round received so far has an error
    roundRequests,       \* the requests the round started with
    \* host
    signalAborted,       \* playing.signal.aborted
    inflight,            \* the requests of the round that have not returned
    \* observation of the run
    issued,              \* the requests the last handler has sent
    retryCalls,          \* the calls of adaptiveRetry the last handler has made
    decision,            \* the rendition selection the last handler has made
    answered             \* the round or the probe the last handler has seen the end of

adaptiveVars == <<pc, subscribed, stall, again, sequence, newSequence, skipFixLiveTime,
                  prevVideoTime, prevVideoSequence, audioAborted, videoAborted, upController,
                  maxSequenceDuration, appreciating, roundOk, roundError, roundRequests,
                  signalAborted, inflight, issued, retryCalls, decision, answered>>

VARIABLES
    \* RTSReader and the transport that feeds it
    withSize,            \* _params.withSize
    readerHeader,        \* _header, with its bytes when it is set
    nextTimes,           \* _nextTimes: the next time of a track, Undefined if none
    readerData,          \* Reader._data: the bytes kept for the next read
    wire,                \* the messages sent and not read yet
    senderTimes,         \* the next time of a track for the sender
    unread,              \* the packets sent whose events are not emitted yet
    \* observation of the run
    emitted,             \* the events the last read has emitted
    parsed,              \* the packets the last read has finished
    readPacket           \* the complete packet held by the message last read, if any

readerVars == <<withSize, readerHeader, nextTimes, readerData, wire, senderTimes, unread,
                emitted, parsed, readPacket>>

VARIABLES
    \* observation of Source.fixTimestamp
    fixCall,             \* the last call: its arguments, the sample after it, the sample delivered
    \* Metadata
    manifest,            \* the tracks of the manifest the server answers with
    metadata,            \* tracks (the ids in the order of the Map), audioTracks, videoTracks, dataTracks
    mediaTracks,         \* the MediaTrack of an id: type, bandwidth, up, down
    fixes,               \* the calls of fix() on this Metadata so far
    \* MediaPlayback
    mediaPlayback,       \* _mediaSource, _audioBuffer, _videoBuffer, the MediaBuffer made, onClose
    \* AdaptiveRetry
    retry,               \* _tryDelay, _appreciationTime, _success
    now,                 \* Util.time(), ms
    retryCall,           \* the last call of try(): its result
    \* Source: the first samples
    ingestion,           \* _tracks, _firstSamples, _closed of a Source and what onSample was given
    ingestCall,          \* the last readAudio or readVideo: what was held, what it delivered
    \* HTTPAdaptiveSource._downloadSequence of a video sequence
    download,            \* its locals, the requests sent, the samples handed to readVideo
    \* CMAFWriter
    cmaf,                \* _isVideo, _sequence, and the boxes of the last init() and write()
    \* Player: the sessions started one after the other
    sessions             \* the objects of the Player and those of the sessions before

repairVars == <<fixCall>>

metadataVars == <<manifest, metadata, mediaTracks, fixes>>

mediaPlaybackVars == <<mediaPlayback>>

retryVars == <<retry, now, retryCall>>

ingestionVars == <<ingestion, ingestCall>>

downloadVars == <<download>>

cmafVars == <<cmaf>>

sessionVars == <<sessions>>

\* the state of the parts of the program that are followed on their own
unitVars == <<repairVars, metadataVars, mediaPlaybackVars, retryVars, ingestionVars,
              downloadVars, cmafVars, sessionVars>>

\* the Player, its Source and the reader
programVars == <<playerVars, sourceVars, selectVars, adaptiveVars, readerVars>>

\* what the ingestion of a sample with the observation of its repair leaves alone
notRepairVars == <<playerVars, selectVars, adaptiveVars, readerVars, metadataVars,
                   mediaPlaybackVars, retryVars, ingestionVars, downloadVars, cmafVars,
    sessionVars>>

\* what the making of a Metadata leaves alone
notMetadataVars == <<programVars, repairVars, mediaPlaybackVars, retryVars, ingestionVars,
                     downloadVars, cmafVars,
    sessionVars>>

\* what a MediaPlayback leaves alone
notMediaPlaybackVars == <<programVars, repairVars, metadataVars, retryVars, ingestionVars,
                          downloadVars, cmafVars,
    sessionVars>>

\* what an AdaptiveRetry leaves alone
notRetryVars == <<programVars, repairVars, metadataVars, mediaPlaybackVars, ingestionVars,
                  downloadVars, cmafVars,
    sessionVars>>

\* what the first samples of a Source leave alone
notIngestionVars == <<programVars, repairVars, metadataVars, mediaPlaybackVars, retryVars,
                      downloadVars, cmafVars,
    sessionVars>>

\* what the download of a sequence leaves alone
notDownloadVars == <<programVars, repairVars, metadataVars, mediaPlaybackVars, retryVars,
                     ingestionVars, cmafVars,
    sessionVars>>

\* what the sessions of the Player leave alone
notSessionVars == <<programVars, repairVars, metadataVars, mediaPlaybackVars, retryVars,
                    ingestionVars, downloadVars, cmafVars>>

\* what a CMAFWriter leaves alone
notCmafVars == <<programVars, repairVars, metadataVars, mediaPlaybackVars, retryVars,
                 ingestionVars, downloadVars,
    sessionVars>>

vars == <<playerVars, sourceVars, selectVars, adaptiveVars, readerVars, unitVars>>

\* what the handlers of the Player leave alone
notPlayerVars == <<sourceVars, selectVars, adaptiveVars, readerVars, unitVars>>

\* what the ingestion of a sample leaves alone
notSourceVars == <<playerVars, selectVars, adaptiveVars, readerVars, unitVars>>

\* what the selection of the tracks leaves alone
notSelectVars == <<playerVars, sourceVars, adaptiveVars, readerVars, unitVars>>

(***************************************************************************)
(* The handlers of the Player are sequential code: they are written as     *)
(* functions from the state at entry (a record W) to the state at return.  *)
(***************************************************************************)
Cur == [timeout |-> timeout, buffering |-> buffering, paused |-> paused,
        bufferState |-> bufferState, bufferLimitLow |-> bufferLimitLow,
        bufferLimitHigh |-> bufferLimitHigh, bufferLimitMiddle |-> bufferLimitMiddle,
        source |-> source, reliable |-> reliable, mediaSource |-> mediaSource,
        onsourceopen |-> onsourceopen, onsourceclose |-> onsourceclose,
        playback |-> playback, listening |-> listening, buffers |-> buffers,
        startTime |-> startTime, endTime |-> endTime, endPrevTime |-> endPrevTime,
        currentTime |-> currentTime, videoPaused |-> videoPaused,
        playbackRate |-> playbackRate, playPending |-> playPending, timers |-> timers,
        hasMediaSource |-> hasMediaSource, hasManaged |-> hasManaged,
        events |-> <<>>, openSessions |-> openSessions, stopError |-> stopError,
        sourceClosed |-> FALSE, playbackClosed |-> FALSE, sinkLoads |-> FALSE,
        armed |-> armed, idleGiven |-> idleGiven]

Commit(w) ==
    /\ timeout' = w.timeout
    /\ buffering' = w.buffering
    /\ paused' = w.paused
    /\ bufferState' = w.bufferState
    /\ bufferLimitLow' = w.bufferLimitLow
    /\ bufferLimitHigh' = w.bufferLimitHigh
    /\ bufferLimitMiddle' = w.bufferLimitMiddle
    /\ source' = w.source
    /\ reliable' = w.reliable
    /\ mediaSource' = w.mediaSource
    /\ onsourceopen' = w.onsourceopen
    /\ onsourceclose' = w.onsourceclose
    /\ playback' = w.playback
    /\ listening' = w.listening
    /\ buffers' = w.buffers
    /\ startTime' = w.startTime
    /\ endTime' = w.endTime
    /\ endPrevTime' = w.endPrevTime
    /\ currentTime' = w.currentTime
    /\ videoPaused' = w.videoPaused
    /\ playbackRate' = w.playbackRate
    /\ playPending' = w.playPending
    /\ timers' = w.timers
    /\ hasMediaSource' = w.hasMediaSource
    /\ hasManaged' = w.hasManaged
    /\ events' = w.events
    /\ openSessions' = w.openSessions
    /\ stopError' = w.stopError
    /\ armed' = w.armed
    /\ idleGiven' = w.idleGiven

Emit(w, ev) == [w EXCEPT !.events = Append(@, ev)]

\* Player.running
Running(w) == w.timeout # NoTimeout

\* Player.startTime / Player.endTime
PlayerStartTime(w) == IF w.playback THEN w.startTime ELSE 0

PlayerEndTime(w) == IF w.playback THEN w.endTime ELSE 0

\* Player.reliable
PlayerReliable(w) == IF w.source THEN w.reliable ELSE FALSE

\* Player.bufferAmount
BufferAmount(w) == Max(0, PlayerEndTime(w) - Max(w.currentTime, PlayerStartTime(w)))

(***************************************************************************)
(* Buffer thresholds                                                       *)
(***************************************************************************)
\* set bufferLimitHigh(value)
SetBufferLimitHigh(w, value) ==
    LET low == Min(value, w.bufferLimitLow)
    IN  [w EXCEPT !.bufferLimitHigh = value,
                  !.bufferLimitLow = low,
                  !.bufferLimitMiddle = Max(0, low + RoundHalf(value - low))]

SetBufferLimitLowNoFix(w, value) == [w EXCEPT !.bufferLimitLow = value]

\* set bufferLimitLow(value)
SetBufferLimitLow(w, value) ==
    SetBufferLimitHigh([w EXCEPT !.bufferLimitLow = value], Max(value, w.bufferLimitHigh))

(***************************************************************************)
(* Timers of the host (setTimeout / clearTimeout)                          *)
(***************************************************************************)
\* clearTimeout(id)
ClearTimeout(w, id) == [w EXCEPT !.timers = {t \in @ : t.id # id}]

\* identifiers of the pending timers; an identifier is free again once its timer
\* has run or has been cleared
FreeTimerIds(w) == TimerIds \ {t.id : t \in w.timers}

NewTimerId(w) == CHOOSE i \in FreeTimerIds(w) : \A j \in FreeTimerIds(w) : i <= j

\* id = setTimeout(() => this.stop({ type: 'PlayerError', name }), duration)
SetTimeout(w, name, duration) ==
    [w EXCEPT !.timers = @ \cup {[id |-> NewTimerId(w), name |-> name,
                                  left |-> duration, dur |-> duration]},
              !.armed = name]

RearmTimeoutNoClear(w, name) ==
    LET id == NewTimerId(w)
    IN  [SetTimeout(w, name, w.timeout.value) EXCEPT !.timeout.id = id]

\* clearTimeout(this._timeout.id); this._timeout.id = setTimeout(..., this._timeout.value)
RearmTimeout(w, name) ==
    LET c == ClearTimeout(w, w.timeout.id)
        id == NewTimerId(c)
    IN  [SetTimeout(c, name, c.timeout.value) EXCEPT !.timeout.id = id]

(***************************************************************************)
(* Buffer state and playback rate                                          *)
(***************************************************************************)
\* Player.onBufferState(oldState)
OnBufferState(w, oldState) ==
    LET n == Emit(w, BufferStateEv(oldState, w.bufferState, BufferAmount(w)))
    IN  IF n.hasManaged
        THEN n
        ELSE [n EXCEPT !.playbackRate = CASE n.bufferState = "HIGH" -> 108
                                          [] n.bufferState = "LOW" -> 92
                                          [] OTHER -> 100]

\* Player._setBufferState(state)
SetBufferState(w, state) ==
    IF w.bufferState # state
    THEN OnBufferState([w EXCEPT !.bufferState = state], w.bufferState)
    ELSE w

\* a goLive that moves the playhead as far from the end as the high limit and more
GoLiveUnderHigh(w) ==
    Emit([w EXCEPT !.currentTime = Max(PlayerStartTime(w),
                                       PlayerEndTime(w) - w.bufferLimitHigh - 1)],
         Ev("goLive"))

\* Player.goLive()
GoLive(w) ==
    Emit([w EXCEPT !.currentTime = Max(PlayerStartTime(w), PlayerEndTime(w) - w.bufferLimitMiddle)],
         Ev("goLive"))

\* Player._tryToPlay(), up to the await of video.play()
TryToPlay(w) ==
    IF ~w.paused /\ ~w.buffering /\ w.videoPaused
    THEN [w EXCEPT !.videoPaused = FALSE, !.playPending = TRUE]
    ELSE w

\* video.pause()
VideoPause(w) == Emit([w EXCEPT !.videoPaused = TRUE], Ev("pause"))

\* this._video.src = ...: the code hands the element a new source and writes no
\* other field of it; a sink that runs the HTML load algorithm (sinkLoads) resets
\* its own playhead, paused flag, rate and play promises, another sink keeps them
VideoLoad(w) ==
    IF w.sinkLoads
    THEN [w EXCEPT !.currentTime = 0, !.videoPaused = TRUE, !.playbackRate = 100,
                   !.playPending = FALSE]
    ELSE w

(***************************************************************************)
(* Player.stop                                                             *)
(***************************************************************************)
StopSlotKept(w) == ClearTimeout(w, w.timeout.id)

\* clearTimeout(this._timeout.id); this._timeout = undefined
StopSlot(w) == [ClearTimeout(w, w.timeout.id) EXCEPT !.timeout = NoTimeout]

\* the values reset at the end of Player.stop
StopReset(w) ==
    [w EXCEPT !.buffering = FALSE, !.paused = FALSE, !.source = FALSE, !.reliable = FALSE,
              !.mediaSource = "none", !.playback = FALSE, !.buffers = FALSE,
              !.startTime = 0, !.endTime = 0, !.endPrevTime = -1,
              !.sourceClosed = FALSE, !.playbackClosed = FALSE,
              !.bufferState = "NONE"]

\* Player.onStop(error)
OnStop(w, error) ==
    Emit([w EXCEPT !.openSessions = @ - 1, !.stopError = error, !.armed = NoError,
                   !.idleGiven = 0], Ev("onStop"))

RECURSIVE Stop(_, _)
\* Source.close(error): guarded by _closed, ends with onClose(error) = Player.stop(error)
SourceClose(w, error) ==
    IF w.sourceClosed
    THEN w
    ELSE Stop([w EXCEPT !.sourceClosed = TRUE], error)

\* MediaPlayback.close(error): guarded by _mediaSource, ends with onClose(error) = Player.stop(error)
PlaybackClose(w, error) ==
    IF w.playbackClosed
    THEN w
    ELSE Stop([w EXCEPT !.playbackClosed = TRUE, !.buffers = FALSE], error)

\* Player.stop(error)
Stop(w, error) ==
    IF ~Running(w)
    THEN w
    ELSE LET a == [StopSlot(w) EXCEPT !.listening = FALSE]
             b == IF a.mediaSource # "none"
                  THEN LET h == [a EXCEPT !.onsourceopen = FALSE, !.onsourceclose = FALSE]
                           s == IF h.source THEN SourceClose(h, NoError) ELSE h
                           p == IF s.playback THEN PlaybackClose(s, NoError) ELSE s
                       IN  VideoLoad(p)
                  ELSE a
         IN  OnStop(StopReset(b), error)

(***************************************************************************)
(* Player.start and the media source handlers                              *)
(***************************************************************************)
\* idleTimeout = Number(idleTimeout) || TIMEOUT
IdleDuration(idle) == IF idle = 0 THEN TIMEOUT ELSE idle

\* Player.start(params, idleTimeout)
Start(w, idle) ==
    LET s == Stop(w, NoError)
        id == NewTimerId(s)
        a == [SetTimeout(s, "Start timeout", IdleDuration(idle))
                 EXCEPT !.timeout = [id |-> id, value |-> IdleDuration(idle)],
                        !.openSessions = @ + 1,
                        !.stopError = NoError,
                        !.idleGiven = idle]
        b == VideoPause([a EXCEPT !.buffering = TRUE])
    IN  IF ~(b.hasMediaSource \/ b.hasManaged)
        THEN Stop(b, "Update the browser")
        ELSE VideoLoad([b EXCEPT !.mediaSource = "closed",
                                 !.onsourceclose = TRUE,
                                 !.onsourceopen = TRUE,
                                 !.playback = TRUE,
                                 !.listening = TRUE])

\* this._mediaSource.onsourceopen
OnSourceOpen(w) ==
    IF ~Running(w)
    THEN w
    ELSE LET a == [w EXCEPT !.onsourceopen = FALSE]
             b == RearmTimeout(a, "Connection timeout")
         IN  [b EXCEPT !.source = TRUE, !.reliable = FALSE]

\* this._mediaSource.onsourceclose
OnSourceClose(w) == Stop(w, "Playback error")

(***************************************************************************)
(* Buffer-state evaluation                                                 *)
(***************************************************************************)
EvaluateNoHysteresis(w) ==
    LET bufferAmount == BufferAmount(w)
    IN  IF bufferAmount > w.bufferLimitLow
        THEN LET t == TryToPlay(w)
             IN  IF bufferAmount > t.bufferLimitHigh
                 THEN SetBufferState(t, "HIGH")
                 ELSE SetBufferState(t, "OK")
        ELSE SetBufferState(w, "LOW")

EvaluateHighInclusive(w) ==
    LET bufferAmount == BufferAmount(w)
    IN  IF bufferAmount > w.bufferLimitLow
        THEN LET t == TryToPlay(w)
             IN  IF bufferAmount > t.bufferLimitHigh + 1
                 THEN SetBufferState(t, "HIGH")
                 ELSE IF (IF t.bufferState = "LOW"
                          THEN bufferAmount > t.bufferLimitMiddle
                          ELSE bufferAmount < t.bufferLimitMiddle)
                      THEN SetBufferState(t, "OK")
                      ELSE t
        ELSE SetBufferState(w, "LOW")

\* Player._onTimeUpdate, "Playing progress => check buffering!"
Evaluate(w) ==
    LET bufferAmount == BufferAmount(w)
    IN  IF bufferAmount > w.bufferLimitLow
        THEN LET t == TryToPlay(w)
             IN  IF bufferAmount > t.bufferLimitHigh
                 THEN SetBufferState(t, "HIGH")
                 ELSE IF (IF t.bufferState = "LOW"
                          THEN bufferAmount > t.bufferLimitMiddle
                          ELSE bufferAmount < t.bufferLimitMiddle)
                      THEN SetBufferState(t, "OK")
                      ELSE t
        ELSE SetBufferState(w, "LOW")

\* Player._onTimeUpdate()
\* (the request to drop the buffer older than PAST_BUFFER is served later by the
\*  MediaBuffer: see BufferEvict)
OnTimeUpdate(w) ==
    IF ~w.playback \/ ~w.source
    THEN w
    ELSE IF w.bufferState = "NONE" /\ w.buffering
         THEN w
         ELSE Evaluate(Emit(w, Ev("evaluate")))

\* Player._onPlaybackProgress()
OnPlaybackProgress(w) ==
    IF ~w.playback
    THEN w
    ELSE IF w.buffering /\ BufferAmount(w) < w.bufferLimitMiddle
         THEN w
         ELSE LET a == IF w.buffering
                       THEN LET e == SetBufferState(Emit([w EXCEPT !.buffering = FALSE],
                                                        Ev("bufferingEnd")), "OK")
                            IN  IF e.currentTime # 0 /\ ~PlayerReliable(e)
                                   /\ PlayerEndTime(e) - e.currentTime > e.bufferLimitHigh
                                THEN GoLive(e)
                                ELSE e
                       ELSE w
                  b == IF a.currentTime < PlayerStartTime(a) THEN GoLive(a) ELSE a
              IN  OnTimeUpdate(b)

(***************************************************************************)
(* Video events registered by Player.start                                 *)
(***************************************************************************)
OnWaitingStallFirst(w) ==
    IF ~Running(w)
    THEN w
    ELSE IF BufferAmount(w) > w.bufferLimitLow
         THEN w
         ELSE LET a == RearmTimeout(w, "Data timeout")
                  b == [a EXCEPT !.buffering = TRUE]
                  c == Emit(b, Ev("onStall"))
                  d == SetBufferState(c, "LOW")
              IN  VideoPause(d)

\* onWaiting
OnWaiting(w) ==
    IF ~Running(w)
    THEN w
    ELSE IF BufferAmount(w) > w.bufferLimitLow
         THEN w
         ELSE LET a == RearmTimeout(w, "Data timeout")
                  b == [a EXCEPT !.buffering = TRUE]
                  c == SetBufferState(b, "LOW")
                  d == VideoPause(c)
              IN  Emit(d, Ev("onStall"))

\* onCanPlay
OnCanPlay(w) == TryToPlay(ClearTimeout(w, w.timeout.id))

\* onPlaying
OnPlaying(w) == ClearTimeout(w, w.timeout.id)

\* onSeeked
OnSeeked(w) ==
    IF ~PlayerReliable(w) /\ BufferAmount(w) > w.bufferLimitHigh
    THEN GoLive(w)
    ELSE w

\* set paused(value), called on a running player
SetPaused(w, value) ==
    LET a == [w EXCEPT !.paused = value]
    IN  IF value THEN VideoPause(a) ELSE TryToPlay(a)

\* this._playback.onBufferOverflow, the playhead being moved to seekTo by the sink
OnBufferOverflow(w, seekTo) ==
    IF seekTo <= w.currentTime
    THEN Stop(w, "Exceeds buffer size")
    ELSE LET a == [w EXCEPT !.currentTime = seekTo]
         IN  IF a.videoPaused THEN SetPaused(a, FALSE) ELSE a

(***************************************************************************)
(* Player: initial state and actions                                       *)
(***************************************************************************)
\* new Player(video): the constructor, on a host with or without MediaSource and
\* ManagedMediaSource (a host with both behaves as one with ManagedMediaSource
\* only: a media source is created and onBufferState leaves the rate alone)
InitPlayer ==
    /\ timeout = NoTimeout
    /\ buffering = FALSE
    /\ paused = FALSE
    /\ bufferState = "NONE"
    /\ bufferLimitLow = BUFFER_LIMIT_LOW
    /\ bufferLimitHigh = BUFFER_LIMIT_HIGH
    /\ bufferLimitMiddle = Max(0, BUFFER_LIMIT_LOW + RoundHalf(BUFFER_LIMIT_HIGH - BUFFER_LIMIT_LOW))
    /\ source = FALSE
    /\ reliable = FALSE
    /\ mediaSource = "none"
    /\ onsourceopen = FALSE
    /\ onsourceclose = FALSE
    /\ playback = FALSE
    /\ listening = FALSE
    /\ buffers = FALSE
    /\ startTime = 0
    /\ endTime = 0
    /\ endPrevTime = -1
    /\ currentTime = 0
    /\ videoPaused = TRUE
    /\ playbackRate = 100
    /\ playPending = FALSE
    /\ timers = {}
    /\ hasMediaSource \in BOOLEAN
    /\ hasManaged \in BOOLEAN
    /\ ~(hasMediaSource /\ hasManaged)
    /\ events = <<>>
    /\ openSessions = 0
    /\ stopError = NoError
    /\ armed = NoError
    /\ idleGiven = 0

\* new Source(...): the constructor
InitSource ==
    /\ audioTime = -1
    /\ videoTime = -1
    /\ dataTime = -1
    /\ hasMetadata = FALSE
    /\ liveTime = 0
    /\ fixLiveTime = 0
    /\ lastSample = NoSample
    /\ closed = FALSE
    /\ running = FALSE
    /\ selectedTracks = NoTracks
    /\ requestedTracks = NoTracks
    /\ trackRequest = FALSE
    /\ trackTimers = 0
    /\ wireTracks = NoTracks
    /\ setTracksCall = NoCall
    /\ pc = "idle"
    /\ subscribed = FALSE
    /\ stall = FALSE
    /\ again = FALSE
    /\ sequence = Undefined
    /\ newSequence = Infinity
    /\ skipFixLiveTime = 0
    /\ prevVideoTime = Undefined
    /\ prevVideoSequence = Undefined
    /\ audioAborted = FALSE
    /\ videoAborted = FALSE
    /\ upController = "none"
    /\ maxSequenceDuration = Undefined
    /\ appreciating = FALSE
    /\ roundOk = 0
    /\ roundError = FALSE
    /\ roundRequests = {}
    /\ signalAborted = FALSE
    /\ inflight = {}
    /\ issued = {}
    /\ retryCalls = <<>>
    /\ decision = NoDecision
    /\ answered = NoAnswer

\* the state at the entry of a handler, on a sink of either kind (see VideoLoad)
Worlds == {[Cur EXCEPT !.sinkLoads = r] : r \in BOOLEAN}

Do(w) == Commit(w) /\ UNCHANGED notPlayerVars

\* player.bufferLimitLow = value
BufferLimitLowSet == \E value \in {0, MaxLimit} : Do(SetBufferLimitLow(Cur, value))

\* player.bufferLimitHigh = value
BufferLimitHighSet == \E value \in {0, MaxLimit} : Do(SetBufferLimitHigh(Cur, value))

\* player.bufferLimitLow = value, any value
BufferLimitLowAssign == \E value \in 0..MaxAssign : Do(SetBufferLimitLow(Cur, value))

\* player.bufferLimitHigh = value, any value
BufferLimitHighAssign == \E value \in 0..MaxAssign : Do(SetBufferLimitHigh(Cur, value))

\* player.start(params, idleTimeout)
PlayerStart == \E idle \in 0..MaxIdle, w \in Worlds : Do(Emit(Start(w, idle), Ev("start")))

\* player.start(params)
PlayerStartDefault == \E w \in Worlds : Do(Emit(Start(w, 0), Ev("start")))

\* player.stop(), also on 'beforeunload'
PlayerStop == \E w \in Worlds : Do(Stop(w, NoError))

\* player.paused = value
PausedSet == \E value \in BOOLEAN : Running(Cur) /\ Do(SetPaused(Cur, value))

\* player.reliable = value
ReliableSet == \E value \in BOOLEAN : source /\ Do([Cur EXCEPT !.reliable = value])

\* 'sourceopen' of the MediaSource attached to the element
MediaSourceOpen ==
    /\ mediaSource = "closed"
    /\ IF onsourceopen
       THEN Do([OnSourceOpen(Cur) EXCEPT !.mediaSource = "open"])
       ELSE Do([Cur EXCEPT !.mediaSource = "open"])

\* 'sourceclose' of the MediaSource
MediaSourceClose ==
    /\ mediaSource = "open"
    /\ \E w \in Worlds :
          IF onsourceclose
          THEN Do(OnSourceClose(w))
          ELSE Do([w EXCEPT !.mediaSource = "closed"])

\* a pending setTimeout callback runs: this.stop({ type: 'PlayerError', name })
TimerFire ==
    \E t \in timers, w \in Worlds :
        /\ t.left = 0
        /\ Do(Stop([w EXCEPT !.timers = @ \ {t}], t.name))

\* time passes: one millisecond when a timer is about to expire, else up to
\* one millisecond before the first expiry
Elapse ==
    /\ timers # {}
    /\ \A t \in timers : t.left > 0
    /\ LET least == CHOOSE n \in {t.left : t \in timers} : \A t \in timers : n <= t.left
           step == IF least > MaxIdle THEN least - 1 ELSE 1
       IN  Do([Cur EXCEPT !.timers = {[t EXCEPT !.left = @ - step] : t \in timers}])

\* Source.onTrackChange -> Player._onTrackChange: the MediaBuffers are created
SourceTrackChange ==
    /\ source /\ playback
    /\ ~buffers
    /\ Do([Cur EXCEPT !.buffers = TRUE])

\* the reader of the Source is fed a received chunk (Source._newReader, reader.read)
SourceReadChunk ==
    /\ source
    /\ Do(Emit(Cur, Ev("chunk")))

\* the Source closes, with or without error: Source.close(error) -> onClose
SourceClosed ==
    \E error \in {NoError, "Request error"}, w \in Worlds :
        /\ source
        /\ Do(SourceClose(w, error))

\* the MediaPlayback closes on a buffer or track error: close(error) -> onClose
PlaybackClosed ==
    \E w \in Worlds :
        /\ playback
        /\ Do(PlaybackClose(w, "MediaPlaybackError"))

\* MediaPlayback._onBufferUpdate after an append: the buffered end moves forward
BufferUpdate ==
    \E e \in (endTime + 1)..MaxTime :
        /\ playback /\ buffers
        /\ LET a == [Cur EXCEPT !.endTime = e]
           IN  IF a.endPrevTime = -1 \/ a.endTime > a.endPrevTime
               THEN Do(OnPlaybackProgress([a EXCEPT !.endPrevTime = e]))
               ELSE Do(a)

\* MediaPlayback._onBufferUpdate after a removal: the buffered start moves forward
BufferEvict ==
    \E b \in (startTime + 1)..endTime :
        /\ playback /\ buffers
        /\ LET a == [Cur EXCEPT !.startTime = b]
           IN  IF a.endPrevTime = -1
               THEN Do(OnPlaybackProgress([a EXCEPT !.endPrevTime = a.endTime]))
               ELSE Do(a)

\* MediaPlayback.onBufferOverflow
BufferOverflow ==
    \E seekTo \in currentTime..MaxTime, w \in Worlds :
        /\ Running(Cur) /\ playback /\ buffers
        /\ Do(OnBufferOverflow(w, seekTo))

\* the playhead of the element moves (playback or seek)
VideoTime ==
    \E t \in 0..MaxTime :
        /\ t # currentTime
        /\ Do([Cur EXCEPT !.currentTime = t])

\* the promise of video.play() settles
PlaySettled ==
    \E outcome \in {"ok", "NotAllowedError", "NotSupportedError", "AbortError"}, w \in Worlds :
        /\ playPending
        /\ LET a == [w EXCEPT !.playPending = FALSE]
           IN  CASE outcome = "NotAllowedError" -> Do(Stop(a, "Video play error"))
                 [] outcome = "NotSupportedError" -> Do(Stop(a, "Video unsupported error"))
                 [] OTHER -> Do(a)

VideoWaiting == listening /\ Do(Emit(OnWaiting(Cur), Ev("waiting")))

VideoCanPlay == listening /\ Do(Emit(OnCanPlay(Cur), Ev("canplay")))

VideoPlaying == listening /\ Do(Emit(OnPlaying(Cur), Ev("playing")))

VideoSeeked == listening /\ Do(OnSeeked(Cur))

VideoTimeUpdate == listening /\ Do(OnTimeUpdate(Cur))

(***************************************************************************)
(* Source: ingestion of samples and timestamp repair                       *)
(***************************************************************************)
\* Source.currentTime
SourceCurrentTime == Max(audioTime, Max(videoTime, dataTime))

\* a video hole as large as the tolerance is left, as an audio hole is
NeedsFixLikeAudio(type, delta) ==
    /\ delta # 0
    /\ IF type = "data" THEN delta < 0 ELSE delta < TIMESTAMP_HOLE_TOLERANCE

\* an audio hole as large as the tolerance is filled
NeedsFixInclusive(type, delta) ==
    /\ delta # 0
    /\ IF type = "data"
       THEN delta < 0
       ELSE (type # "audio" \/ delta <= TIMESTAMP_HOLE_TOLERANCE)

NeedsFixNoData(type, delta) ==
    /\ delta # 0
    /\ type # "data"
    /\ (type # "audio" \/ delta < TIMESTAMP_HOLE_TOLERANCE)

\* the condition of Source.fixTimestamp under which the sample is moved to currentTime
NeedsFix(type, delta) ==
    /\ delta # 0
    /\ IF type = "data"
       THEN delta < 0
       ELSE (type # "audio" \/ delta < TIMESTAMP_HOLE_TOLERANCE)

\* Source.fixTimestamp: the sample after repair; a sample is [time, duration, timed],
\* timed telling that sample.duration is defined
FixedSample(type, current, sample) ==
    LET delta == IF current >= 0 THEN sample.time - current ELSE 0
        newDuration == IF sample.timed THEN Max(1, sample.duration + delta) ELSE 0
    IN  IF NeedsFix(type, delta)
        THEN [sample EXCEPT !.time = current,
                            !.duration = IF newDuration # 0 THEN newDuration ELSE @]
        ELSE sample

\* Source.fixTimestamp: the value returned, sample.time + (sample.duration ?? 0)
SampleEnd(sample) == sample.time + (IF sample.timed THEN sample.duration ELSE 0)

\* Source.fixTimestamp, "Fix liveTime if need", for the returned time
FixLiveTime(returned) ==
    IF hasMetadata
    THEN LET fix == returned - liveTime
         IN  IF fix > 0
             THEN /\ fixLiveTime + fix <= MaxFixLive
                  /\ fixLiveTime' = fixLiveTime + fix
                  /\ liveTime' = liveTime + fix
             ELSE /\ fixLiveTime' = 0
                  /\ liveTime' = liveTime
    ELSE UNCHANGED <<liveTime, fixLiveTime>>

\* what _onSample / onData is handed: the kind and the time of the sample (its
\* duration is the distance to the end time of its kind), with the repair made
\* to the time read: none, an overlap removed or a hole filled
Delivered(kind, sample, time) ==
    [kind |-> kind, time |-> sample.time,
     repair |-> IF sample.time = time THEN "kept"
                ELSE IF time < sample.time THEN "overlap" ELSE "hole"]

\* Media.overScreenSize(track.resolution, playing.maximumResolution): the
\* maximumResolution of the Player is undefined until a 'resize' of the window
OverScreenSize(track) == FALSE

\* Source._autoFirstTrack(tracks): the middle rendition, lowered while it is over
\* the screen size (track.down of a video track is the next id)
RECURSIVE Displayable(_)
Displayable(track) ==
    IF OverScreenSize(track) /\ track + 1 < NVideo THEN Displayable(track + 1) ELSE track

AutoFirstTrack(tracks) ==
    IF Len(tracks) = 0 THEN -1 ELSE Displayable(tracks[(Len(tracks) \div 2) + 1])

\* Source.readMetadata, "tracks inits?": onMetadata returns nothing
InitTracks(requested) ==
    [audio |-> IF requested.audio = Undefined THEN AutoFirstTrack(AudioTracks)
               ELSE requested.audio,
     video |-> IF requested.video = Undefined THEN AutoFirstTrack(VideoTracks)
               ELSE requested.video]

\* Source.readMetadata(metadata)
ReadMetadata ==
    \E live \in 0..MaxLive :
        /\ ~closed
        /\ hasMetadata' = TRUE
        /\ liveTime' = live
        /\ lastSample' = NoSample
        /\ requestedTracks' = InitTracks(requestedTracks)
        /\ setTracksCall' = NoCall
        /\ UNCHANGED <<audioTime, videoTime, dataTime, fixLiveTime>>
        /\ UNCHANGED <<closed, running, selectedTracks, trackRequest, trackTimers, wireTracks>>
        /\ UNCHANGED <<playerVars, adaptiveVars, readerVars, unitVars>>

\* Source.readAudio(trackId, sample): what it does to the fields of the Source
IngestAudio ==
    \E trackId \in {-1, 0} :
        IF trackId < 0
        THEN /\ lastSample' = NoSample
             /\ UNCHANGED <<audioTime, videoTime, dataTime, hasMetadata, liveTime, fixLiveTime>>
        ELSE \E time \in 0..MaxSampleTime, duration \in 0..MaxSampleDuration :
             LET sample == FixedSample("audio", audioTime,
                                       [time |-> time, duration |-> duration, timed |-> TRUE])
             IN  /\ SampleEnd(sample) <= MaxSourceTime
                 /\ audioTime' = SampleEnd(sample)
                 /\ FixLiveTime(SampleEnd(sample))
                 /\ lastSample' = Delivered("audio", sample, time)
                 /\ UNCHANGED <<videoTime, dataTime, hasMetadata>>

\* Source.readAudio(trackId, sample)
ReadAudio == IngestAudio /\ UNCHANGED notSourceVars

\* Source.readVideo(trackId, sample): what it does to the fields of the Source; a
\* negative duration makes the sample extendable
IngestVideo ==
    \E trackId \in {-1, 0} :
        IF trackId < 0
        THEN /\ lastSample' = NoSample
             /\ UNCHANGED <<audioTime, videoTime, dataTime, hasMetadata, liveTime, fixLiveTime>>
        ELSE \E time \in 0..MaxSampleTime, duration \in (-MaxSampleDuration)..MaxSampleDuration :
             LET extendableDuration == IF duration < 0 THEN -duration ELSE 0
                 sample == FixedSample("video", videoTime,
                                       [time |-> time,
                                        duration |-> IF duration < 0 THEN -duration ELSE duration,
                                        timed |-> TRUE])
                 delay == Max(audioTime, Max(SampleEnd(sample), dataTime)) - SampleEnd(sample)
                 extended == IF extendableDuration # 0 /\ delay > 0
                             THEN [sample EXCEPT !.duration = @ + delay]
                             ELSE sample
             IN  /\ SampleEnd(extended) <= MaxSourceTime
                 /\ videoTime' = SampleEnd(extended)
                 /\ FixLiveTime(SampleEnd(sample))
                 /\ lastSample' = Delivered("video", extended, time)
                 /\ UNCHANGED <<audioTime, dataTime, hasMetadata>>

\* Source.readVideo(trackId, sample)
ReadVideo == IngestVideo /\ UNCHANGED notSourceVars

\* Source.readData(trackId, time, data), the source not being closed
ReadData ==
    \E time \in 0..MaxSampleTime :
        /\ LET sample == FixedSample("data", dataTime,
                                     [time |-> time, duration |-> 0, timed |-> FALSE])
           IN  /\ dataTime' = SampleEnd(sample)
               /\ FixLiveTime(SampleEnd(sample))
               /\ lastSample' = Delivered("data", sample, time)
        /\ UNCHANGED <<audioTime, videoTime, hasMetadata>>
        /\ UNCHANGED notSourceVars

(***************************************************************************)
(* Source: life cycle and selection of the tracks                          *)
(***************************************************************************)
SelectTracksEveryTime(tracks) ==
    IF closed \/ (selectedTracks.audio = tracks.audio /\ selectedTracks.video = tracks.video)
    THEN UNCHANGED <<selectedTracks, requestedTracks, trackRequest, trackTimers>>
    ELSE /\ selectedTracks' = tracks
         /\ IF ~running
            THEN UNCHANGED <<requestedTracks, trackRequest, trackTimers>>
            ELSE /\ requestedTracks' =
                        [audio |-> IF Truthy(tracks.audio) THEN tracks.audio
                                   ELSE requestedTracks.audio,
                         video |-> IF Truthy(tracks.video) THEN tracks.video
                                   ELSE requestedTracks.video]
                 /\ trackRequest' = TRUE
                 /\ trackTimers' = trackTimers + 1

\* Source._selectTracks(tracks)
SelectTracks(tracks) ==
    IF closed \/ (selectedTracks.audio = tracks.audio /\ selectedTracks.video = tracks.video)
    THEN UNCHANGED <<selectedTracks, requestedTracks, trackRequest, trackTimers>>
    ELSE /\ selectedTracks' = tracks
         /\ IF ~running
            THEN UNCHANGED <<requestedTracks, trackRequest, trackTimers>>
            ELSE /\ requestedTracks' =
                        [audio |-> IF Truthy(tracks.audio) THEN tracks.audio
                                   ELSE requestedTracks.audio,
                         video |-> IF Truthy(tracks.video) THEN tracks.video
                                   ELSE requestedTracks.video]
                 /\ IF trackRequest
                    THEN UNCHANGED <<trackRequest, trackTimers>>
                    ELSE /\ trackRequest' = TRUE
                         /\ trackTimers' = trackTimers + 1

\* source.videoTrack = idx: what it does to the fields of the Source
AssignVideoTrack ==
    \E idx \in {Undefined, -1} \cup (0..(NVideo - 1)) :
        /\ SelectTracks([video |-> idx, audio |-> selectedTracks.audio])
        /\ setTracksCall' = NoCall
        /\ UNCHANGED <<closed, running, wireTracks>>

\* source.videoTrack = idx
SelectVideoTrack == AssignVideoTrack /\ UNCHANGED notSelectVars

\* source.audioTrack = idx
SelectAudioTrack ==
    \E idx \in {Undefined, -1, NVideo} :
        /\ SelectTracks([audio |-> idx, video |-> selectedTracks.video])
        /\ setTracksCall' = NoCall
        /\ UNCHANGED <<closed, running, wireTracks>>
        /\ UNCHANGED notSelectVars

\* the callback of the setTimeout of Source._selectTracks; the readAudio(-1) and
\* readVideo(-1) that follow a deactivation hand no sample over
TrackRequestFire ==
    /\ trackTimers > 0
    /\ trackTimers' = trackTimers - 1
    /\ trackRequest' = FALSE
    /\ IF closed
       THEN /\ setTracksCall' = NoCall
            /\ UNCHANGED <<wireTracks, lastSample>>
       ELSE /\ setTracksCall' = selectedTracks
            /\ wireTracks' = selectedTracks
            /\ lastSample' = IF \/ (Truthy(requestedTracks.audio) /\ requestedTracks.audio < 0)
                                \/ (Truthy(requestedTracks.video) /\ requestedTracks.video < 0)
                             THEN NoSample
                             ELSE lastSample
    /\ UNCHANGED <<closed, running, selectedTracks, requestedTracks>>
    /\ UNCHANGED <<audioTime, videoTime, dataTime, hasMetadata, liveTime, fixLiveTime>>
    /\ UNCHANGED <<playerVars, adaptiveVars, readerVars, unitVars>>

\* Source.close(error): what it does to the fields of the Source
Close ==
    /\ ~closed
    /\ closed' = TRUE
    /\ trackTimers' = IF trackRequest THEN trackTimers - 1 ELSE trackTimers
    /\ selectedTracks' = NoTracks
    /\ setTracksCall' = NoCall
    /\ UNCHANGED <<running, requestedTracks, trackRequest, wireTracks>>

\* Source.close(error) of a Source whose onClose is the one of the class
CloseSource == Close /\ UNCHANGED notSelectVars

\* Source._run and the start of HTTPAdaptiveSource._play: the manifest is requested
SourceRun ==
    /\ ~running
    /\ ~closed
    /\ running' = TRUE
    /\ requestedTracks' = selectedTracks
    /\ wireTracks' = selectedTracks
    /\ setTracksCall' = NoCall
    /\ UNCHANGED <<closed, selectedTracks, trackRequest, trackTimers>>
    /\ pc' = "manifest"
    /\ issued' = {Request("manifest", Undefined, Undefined, "GET")}
    /\ retryCalls' = <<>>
    /\ decision' = NoDecision
    /\ answered' = NoAnswer
    /\ UNCHANGED <<subscribed, stall, again, sequence, newSequence, skipFixLiveTime,
                   prevVideoTime, prevVideoSequence, audioAborted, videoAborted, upController,
                   maxSequenceDuration, appreciating, roundOk, roundError, roundRequests,
                   signalAborted, inflight>>
    /\ UNCHANGED <<playerVars, sourceVars, readerVars, unitVars>>

(***************************************************************************)
(* HTTPAdaptiveSource: the loop of _play. A step runs the code from the    *)
(* return of an await to the next await.                                   *)
(***************************************************************************)
\* the fields and locals the loop works on, at the entry of a step
Loop == [pc |-> pc, closed |-> closed, video |-> requestedTracks.video,
         audio |-> requestedTracks.audio, subscribed |-> subscribed, stall |-> stall,
         again |-> again, sequence |-> sequence, newSequence |-> newSequence,
         skipFixLiveTime |-> skipFixLiveTime, prevVideoTime |-> prevVideoTime,
         prevVideoSequence |-> prevVideoSequence, audioAborted |-> audioAborted,
         videoAborted |-> videoAborted, upController |-> upController,
         maxSequenceDuration |-> maxSequenceDuration, appreciating |-> appreciating,
         roundOk |-> roundOk, roundError |-> roundError, roundRequests |-> roundRequests,
         hasMetadata |-> hasMetadata,
         liveTime |-> liveTime, inflight |-> inflight, issued |-> {}, retryCalls |-> <<>>,
         decision |-> NoDecision, answered |-> NoAnswer]

\* the state at the return of a step; a close made by the step is Source.close
CommitLoop(a) ==
    /\ pc' = a.pc
    /\ subscribed' = a.subscribed
    /\ stall' = a.stall
    /\ again' = a.again
    /\ sequence' = a.sequence
    /\ newSequence' = a.newSequence
    /\ skipFixLiveTime' = a.skipFixLiveTime
    /\ prevVideoTime' = a.prevVideoTime
    /\ prevVideoSequence' = a.prevVideoSequence
    /\ audioAborted' = a.audioAborted
    /\ videoAborted' = a.videoAborted
    /\ upController' = a.upController
    /\ maxSequenceDuration' = a.maxSequenceDuration
    /\ appreciating' = a.appreciating
    /\ roundOk' = a.roundOk
    /\ roundError' = a.roundError
    /\ roundRequests' = a.roundRequests
    /\ inflight' = a.inflight
    /\ issued' = a.issued
    /\ retryCalls' = a.retryCalls
    /\ decision' = a.decision
    /\ answered' = a.answered
    /\ hasMetadata' = a.hasMetadata
    /\ liveTime' = a.liveTime
    /\ lastSample' = NoSample
    /\ requestedTracks' = [audio |-> a.audio, video |-> a.video]
    /\ closed' = a.closed
    /\ trackTimers' = IF a.closed /\ ~closed /\ trackRequest THEN trackTimers - 1 ELSE trackTimers
    /\ selectedTracks' = IF a.closed /\ ~closed THEN NoTracks ELSE selectedTracks
    /\ setTracksCall' = NoCall
    /\ UNCHANGED <<running, trackRequest, wireTracks, signalAborted>>
    /\ UNCHANGED <<audioTime, videoTime, dataTime, fixLiveTime>>
    /\ UNCHANGED <<playerVars, readerVars, unitVars>>

\* adaptiveRetry.raise() and adaptiveRetry.reset(), as far as _appreciationTime goes
Raise(a) == [a EXCEPT !.appreciating = FALSE, !.retryCalls = Append(@, "raise")]

ResetRetry(a) == [a EXCEPT !.appreciating = FALSE, !.retryCalls = Append(@, "reset")]

\* adaptiveRetry.try(): the value returned, elapsed telling that the try delay has
\* elapsed since the appreciation time (it has not when the time is set by this call)
TryResult(a, elapsed) == a.appreciating /\ elapsed

TryRetry(a, elapsed) ==
    [a EXCEPT !.appreciating = ~TryResult(a, elapsed), !.retryCalls = Append(@, "try")]

\* MediaTrack.down and MediaTrack.up of a video rendition
HasDown(track) == track + 1 < NVideo

Down(track) == IF HasDown(track) THEN track + 1 ELSE track

HasUp(track) == track > 0

Up(track) == IF HasUp(track) THEN track - 1 ELSE track

\* "while (videoTrack.down && videoTrack.bandwidth + audioBandwidth > bandwidthMeasure)"
RECURSIVE LowerWhile(_, _, _)
LowerWhile(track, audioBandwidth, measure) ==
    IF HasDown(track) /\ Bandwidth(track) + audioBandwidth > measure
    THEN LowerWhile(track + 1, audioBandwidth, measure)
    ELSE track

\* videoTrack of the loop: the selection is automatic and the metadata knows tracks.video
Automatic(a) == selectedTracks.video = Undefined /\ a.video \in 0..(NVideo - 1)

RenditionBranchUnprobed(a) ==
    IF a.stall \/ a.videoAborted THEN "limit"
    ELSE IF a.upController # "aborted" THEN "up"
    ELSE IF bufferState = "LOW" THEN "low"
    ELSE "keep"

\* the branch of the rendition selection taken by the loop
RenditionBranch(a) ==
    IF a.stall \/ a.videoAborted THEN "limit"
    ELSE IF a.upController = "live" THEN "up"
    ELSE IF bufferState = "LOW" THEN "low"
    ELSE "keep"

RenditionNoStep(a, branch, measure) ==
    LET audioBandwidth == IF a.audio = NVideo THEN AudioBandwidth ELSE 0
    IN  CASE branch = "limit" -> LowerWhile(a.video, audioBandwidth, measure)
          [] branch = "up" -> Up(a.video)
          [] branch = "low" -> Down(a.video)
          [] OTHER -> a.video

\* the rendition chosen by a branch, before it is made displayable
Rendition(a, branch, measure) ==
    LET audioBandwidth == IF a.audio = NVideo THEN AudioBandwidth ELSE 0
    IN  CASE branch = "limit" ->
                LowerWhile(IF a.upController = "none" THEN Down(a.video) ELSE a.video,
                           audioBandwidth, measure)
          [] branch = "up" -> Up(a.video)
          [] branch = "low" -> Down(a.video)
          [] OTHER -> a.video

\* the rendition selection at the top of an iteration
Decide(a, measure) ==
    IF bufferState = "NONE"
    THEN [a EXCEPT !.decision = [from |-> a.video, to |-> a.video, branch |-> "skipped",
                                 measure |-> measure]]
    ELSE IF Automatic(a)
         THEN LET branch == RenditionBranch(a)
                  to == Displayable(Rendition(a, branch, measure))
                  b == IF branch \in {"limit", "low"} THEN Raise(a) ELSE a
              IN  [b EXCEPT !.video = to,
                            !.decision = [from |-> a.video, to |-> to, branch |-> branch,
                                          measure |-> measure]]
         ELSE [ResetRetry(a) EXCEPT
                   !.decision = [from |-> a.video, to |-> a.video, branch |-> "manual",
                                 measure |-> measure]]

\* "Reset controller and state"
ResetControllers(a) ==
    [a EXCEPT !.audioAborted = FALSE, !.videoAborted = FALSE, !.upController = "none",
              !.stall = FALSE]

\* an Error thrown by _play: Source._run closes the Source
Throw(a) == [a EXCEPT !.pc = "returned", !.closed = TRUE, !.inflight = {}]

\* Math.ceil(n / d) for n >= 0
CeilDiv(n, d) == (n + d - 1) \div d

\* the downloads of an iteration, with the emulation of the upper rendition; a
\* download whose controller is aborted already sends nothing (method NONE)
Issue(a, elapsed) ==
    LET videoTrack == a.decision.branch \in {"limit", "up", "low", "keep"}
        wantAudio == a.audio # Undefined /\ a.audio >= 0
        wantVideo == a.video # Undefined /\ a.video >= 0
        tries == wantVideo /\ videoTrack /\ a.prevVideoTime # Undefined
        b == IF tries THEN TryRetry(a, elapsed) ELSE a
        probe == /\ tries
                 /\ TryResult(a, elapsed)
                 /\ HasUp(a.video)
                 /\ ~OverScreenSize(Up(a.video))
        extraByteRateRequired == Bandwidth(Up(a.video)) - Bandwidth(a.video)
        bytes == CeilDiv(extraByteRateRequired * (videoTime - a.prevVideoTime), 1000)
        requests ==
            (IF wantAudio
             THEN {Request("audio", a.audio, a.sequence,
                           IF a.audioAborted THEN "NONE" ELSE "GET")}
             ELSE {})
            \cup (IF wantVideo
                  THEN {Request("video", a.video, a.sequence,
                                IF a.videoAborted THEN "NONE" ELSE "GET")}
                  ELSE {})
            \cup (IF probe /\ extraByteRateRequired >= 0
                  THEN {Request("up", Up(a.video), a.prevVideoSequence,
                                IF bytes = 0 THEN "HEAD" ELSE "GET")}
                  ELSE {})
    IN  IF requests = {}
        THEN Throw(b)
        ELSE [b EXCEPT !.again = TRUE,
                       !.upController = IF probe THEN "live" ELSE @,
                       !.prevVideoTime = videoTime,
                       !.pc = "download",
                       !.inflight = requests,
                       !.issued = @ \cup {r \in requests : r.method # "NONE"},
                       !.roundOk = 0,
                       !.roundError = FALSE,
                       !.roundRequests = requests]

AfterSkipTwice(a, elapsed) ==
    Issue([a EXCEPT !.liveTime = @ + 2 * a.skipFixLiveTime, !.newSequence = Infinity],
          elapsed)

\* the end of the frame skipping: "Fix evaluation if need", then the downloads
AfterSkip(a, elapsed) ==
    Issue([a EXCEPT !.liveTime = @ + a.skipFixLiveTime, !.newSequence = Infinity],
          elapsed)

CandidateCeil(a) ==
    Min(a.sequence + CeilDiv(a.liveTime - SourceCurrentTime, a.maxSequenceDuration),
        a.newSequence - 1)

\* the sequence to probe: "newSequence = Math.min(sequence + Math.floor(...), ...)"
Candidate(a) ==
    Min(a.sequence + ((a.liveTime - SourceCurrentTime) \div a.maxSequenceDuration),
        a.newSequence - 1)

\* one turn of "while (this.metadata.liveTime > this.currentTime)": the next sequence
\* to probe with a HEAD request, sent unless its controller is aborted
SkipLoop(a, elapsed) ==
    IF a.liveTime > SourceCurrentTime
    THEN LET track == IF a.audio # Undefined /\ a.audio >= 0 THEN a.audio ELSE a.video
             candidate == Candidate(a)
         IN  IF track = Undefined
             THEN Throw(a)
             ELSE IF candidate <= a.sequence
                  THEN AfterSkip([a EXCEPT !.newSequence = candidate], elapsed)
                  ELSE [a EXCEPT !.newSequence = candidate,
                                 !.pc = "probe",
                                 !.issued = IF a.audioAborted THEN @
                                            ELSE @ \cup {Request("probe", track, candidate,
                                                                 "HEAD")}]
    ELSE AfterSkip(a, elapsed)

SkipFramingReliable(a, elapsed) ==
    IF /\ bufferState = "LOW"
       /\ buffering
       /\ a.maxSequenceDuration # Undefined
       /\ a.hasMetadata
    THEN SkipLoop([a EXCEPT !.newSequence = Infinity, !.skipFixLiveTime = 0], elapsed)
    ELSE Issue([a EXCEPT !.skipFixLiveTime = 0], elapsed)

\* "Skip framing"
SkipFraming(a, elapsed) ==
    IF /\ ~reliable
       /\ bufferState = "LOW"
       /\ buffering
       /\ a.maxSequenceDuration # Undefined
       /\ a.hasMetadata
    THEN SkipLoop([a EXCEPT !.newSequence = Infinity, !.skipFixLiveTime = 0], elapsed)
    ELSE Issue([a EXCEPT !.skipFixLiveTime = 0], elapsed)

\* "while (!this.closed)": one iteration up to its first await
Iterate(a, measure, elapsed) ==
    IF a.closed
    THEN [a EXCEPT !.pc = "returned"]
    ELSE SkipFraming(ResetControllers(Decide(a, measure)), elapsed)

\* the receive rates an iteration can measure (the measure is read in the first
\* branch of the selection only) and whether the try delay has elapsed (read when an
\* appreciation time is set only); last tells that the step starts an iteration
Measures(last) == IF last /\ (stall \/ videoAborted) THEN 0..MaxBandwidth ELSE {0}

Elapses(last) == IF last /\ appreciating THEN BOOLEAN ELSE {FALSE}

\* the sequences the loop is followed to
InSequences(a) ==
    /\ a.sequence <= MaxSequence
    /\ (a.newSequence = Infinity \/ a.newSequence <= MaxSequence)

\* the response to the request of the manifest
ManifestDone ==
    /\ pc = "manifest"
    /\ \E outcome \in {"ok", "error", "malformed"}, live \in 0..MaxLive,
          measure \in Measures(TRUE) :
          IF outcome # "ok"
          THEN CommitLoop([Loop EXCEPT !.pc = "returned", !.closed = TRUE])
          ELSE LET tracks == InitTracks(requestedTracks)
                   a == [Loop EXCEPT !.sequence = 0, !.subscribed = TRUE]
                   b == IF closed
                        THEN a
                        ELSE [a EXCEPT !.hasMetadata = TRUE, !.liveTime = live,
                                       !.audio = tracks.audio, !.video = tracks.video]
               IN  CommitLoop(Iterate(b, measure, FALSE))

\* the request of the manifest fails: it is sent again unless the Source is closed
ManifestFailed ==
    /\ pc = "manifest"
    /\ IF closed
       THEN CommitLoop([Loop EXCEPT !.pc = "returned"])
       ELSE CommitLoop([Loop EXCEPT
                           !.issued = {Request("manifest", Undefined, Undefined, "GET")}])

\* the response to the HEAD request of the frame skipping (none is ok once the
\* controller is aborted)
ProbeDone ==
    /\ pc = "probe"
    /\ \E ok \in BOOLEAN, elapsed \in Elapses(TRUE) :
          /\ ok => ~audioAborted
          /\ LET answer == [kind |-> "probe", ok |-> IF ok THEN 1 ELSE 0, from |-> sequence,
                            to |-> newSequence]
                 a == IF ok /\ newSequence > sequence
                      THEN AfterSkip([Loop EXCEPT !.again = FALSE, !.sequence = newSequence,
                                                  !.answered = answer],
                                     elapsed)
                      ELSE SkipLoop([Loop EXCEPT
                                        !.skipFixLiveTime = @ - maxSequenceDuration,
                                        !.answered = answer],
                                    elapsed)
             IN  InSequences(a) /\ CommitLoop(a)

\* the controller of a request is aborted
Aborted(kind) ==
    CASE kind = "video" -> videoAborted
      [] kind = "up" -> upController = "aborted"
      [] OTHER -> audioAborted

\* what follows "await Promise.all(promises)"
RoundEndEach(a) ==
    IF a.roundError
    THEN [a EXCEPT !.pc = "returned", !.closed = TRUE]
    ELSE LET b == [a EXCEPT !.prevVideoSequence = IF a.roundOk > 0 THEN a.sequence ELSE @,
                            !.sequence = a.sequence + a.roundOk,
                            !.again = IF a.roundOk > 0 THEN FALSE ELSE @,
                            !.answered = [kind |-> "round", ok |-> a.roundOk,
                                          from |-> a.sequence, to |-> a.sequence + a.roundOk]]
         IN  IF b.upController = "aborted" THEN Raise(b) ELSE b

RoundEnd(a) ==
    IF a.roundError
    THEN [a EXCEPT !.pc = "returned", !.closed = TRUE]
    ELSE LET b == IF a.again /\ a.roundOk > 0
                  THEN [a EXCEPT !.prevVideoSequence = a.sequence,
                                 !.sequence = a.sequence + 1,
                                 !.again = FALSE,
                                 !.answered = [kind |-> "round", ok |-> a.roundOk,
                                               from |-> a.sequence, to |-> a.sequence + 1]]
                  ELSE [a EXCEPT !.answered = [kind |-> "round", ok |-> a.roundOk,
                                               from |-> a.sequence, to |-> a.sequence]]
         IN  IF b.upController = "aborted" THEN Raise(b) ELSE b

\* a request of the round returns with a status (200, 206 for a download left
\* unfinished, 408 for one that never started or a closed Source) or an error; the
\* last one to return ends the round and starts the next iteration
RequestDone ==
    /\ pc = "download"
    /\ \E r \in inflight, status \in {"200", "206", "408", "error"} :
       \E measure \in Measures(inflight = {r}), elapsed \in Elapses(inflight = {r}) :
          /\ status = "408" => (Aborted(r.kind) \/ closed)
          /\ status = "206" => r.kind # "up"
          /\ r.method = "NONE" => status = "408"
          /\ LET a == [Loop EXCEPT
                          !.inflight = @ \ {r},
                          !.roundOk = @ + (IF status \in {"200", "206"} THEN 1 ELSE 0),
                          !.roundError = @ \/ status = "error",
                          !.maxSequenceDuration =
                              IF status \in {"200", "206"} THEN SequenceDuration ELSE @]
                 b == IF a.inflight # {}
                      THEN a
                      ELSE LET e == RoundEnd(a)
                           IN  IF e.pc = "returned" THEN e ELSE Iterate(e, measure, elapsed)
             IN  InSequences(b) /\ CommitLoop(b)

\* a request of the round fails before its reader exists: it is sent again unless
\* its controller is aborted
RequestFailed ==
    /\ pc = "download"
    /\ \E r \in inflight :
          /\ ~Aborted(r.kind)
          /\ CommitLoop([Loop EXCEPT !.issued = {r}])

\* nothing sent, no call of adaptiveRetry and no selection by the handler
Quiet ==
    /\ issued' = {}
    /\ retryCalls' = <<>>
    /\ decision' = NoDecision
    /\ answered' = NoAnswer

loopLocals == <<pc, subscribed, stall, again, sequence, newSequence, skipFixLiveTime,
                prevVideoTime, prevVideoSequence, maxSequenceDuration, appreciating, roundOk,
                roundError, roundRequests, inflight>>

\* a chunk of the video request is read: one video sample is ingested; the
\* onVideo of an unreliable source can abort the request
DownloadVideo ==
    /\ pc = "download"
    /\ ~closed
    /\ ~videoAborted
    /\ \E r \in inflight : r.kind = "video" /\ r.method = "GET"
    /\ IngestVideo
    /\ lastSample'.kind = "video"
    /\ videoTime' <= MaxDownloadTime
    /\ \E abort \in BOOLEAN : (abort => ~reliable) /\ videoAborted' = abort
    /\ Quiet
    /\ UNCHANGED <<loopLocals, audioAborted, upController, signalAborted>>
    /\ UNCHANGED <<playerVars, selectVars, readerVars, unitVars>>

\* the wall clock advances: Metadata.liveTime read now
Tick ==
    /\ hasMetadata
    /\ liveTime < MaxLiveTime
    /\ liveTime' = liveTime + 1
    /\ Quiet
    /\ UNCHANGED <<loopLocals, audioAborted, videoAborted, upController, signalAborted>>
    /\ UNCHANGED <<audioTime, videoTime, dataTime, hasMetadata, fixLiveTime, lastSample>>
    /\ UNCHANGED <<playerVars, selectVars, readerVars, unitVars>>

\* a BufferState listener that aborts the emulation on any change of state
OnBufferStateEventAny(state, up) == IF subscribed /\ up = "live" THEN "aborted" ELSE up

\* the listener of 'BufferState' registered by _play
OnBufferStateEvent(state, up) == IF subscribed /\ state = "LOW" /\ up = "live" THEN "aborted" ELSE up

\* the playing object changes its buffer state and emits BufferState
PlayingBufferState ==
    \E state \in {"LOW", "OK", "HIGH"} :
        /\ state # bufferState
        /\ Commit([Cur EXCEPT !.bufferState = state,
                              !.buffering = IF state = "LOW" THEN @ ELSE FALSE])
        /\ upController' = OnBufferStateEvent(state, upController)
        /\ Quiet
        /\ UNCHANGED <<loopLocals, audioAborted, videoAborted, signalAborted>>
        /\ UNCHANGED <<sourceVars, selectVars, readerVars, unitVars>>

\* the playing object stalls: its state becomes LOW, it buffers, and it emits
\* BufferState (on a change) and Stall, which the listeners of _play receive
PlayingStall ==
    /\ Commit([Cur EXCEPT !.bufferState = "LOW", !.buffering = TRUE])
    /\ stall' = (stall \/ subscribed)
    /\ audioAborted' = (audioAborted \/ (subscribed /\ ~reliable))
    /\ videoAborted' = (videoAborted \/ (subscribed /\ ~reliable))
    /\ upController' =
          LET up == IF bufferState # "LOW" THEN OnBufferStateEvent("LOW", upController)
                    ELSE upController
          IN  IF subscribed /\ ~reliable /\ up = "live" THEN "aborted" ELSE up
    /\ Quiet
    /\ UNCHANGED <<pc, subscribed, again, sequence, newSequence, skipFixLiveTime,
                   prevVideoTime, prevVideoSequence, maxSequenceDuration, appreciating,
                   roundOk, roundError, roundRequests, inflight, signalAborted>>
    /\ UNCHANGED <<sourceVars, selectVars, readerVars, unitVars>>

\* 'abort' of playing.signal: the listener of the constructor aborts the
\* controllers, and the listeners registered with the signal are removed
PlayingAbort ==
    /\ ~signalAborted
    /\ signalAborted' = TRUE
    /\ audioAborted' = TRUE
    /\ videoAborted' = TRUE
    /\ upController' = IF upController = "none" THEN "none" ELSE "aborted"
    /\ subscribed' = FALSE
    /\ Quiet
    /\ UNCHANGED <<pc, stall, again, sequence, newSequence, skipFixLiveTime, prevVideoTime,
                   prevVideoSequence, maxSequenceDuration, appreciating, roundOk, roundError,
                   roundRequests,
                   inflight>>
    /\ UNCHANGED <<playerVars, sourceVars, selectVars, readerVars, unitVars>>

\* source.reliable = value on the adaptive source, whose _setReliability does nothing
SourceReliableSet ==
    /\ \E value \in BOOLEAN : value # reliable /\ Commit([Cur EXCEPT !.reliable = value])
    /\ Quiet
    /\ UNCHANGED <<loopLocals, audioAborted, videoAborted, upController, signalAborted>>
    /\ UNCHANGED <<sourceVars, selectVars, readerVars, unitVars>>

\* source.videoTrack = idx on the adaptive source
PinVideoTrack ==
    /\ AssignVideoTrack
    /\ Quiet
    /\ UNCHANGED <<loopLocals, audioAborted, videoAborted, upController, signalAborted>>
    /\ UNCHANGED <<playerVars, sourceVars, readerVars, unitVars>>

\* Source.close() on the adaptive source, its onClose being the one of the class
CloseAdaptive ==
    /\ Close
    /\ Quiet
    /\ UNCHANGED <<loopLocals, audioAborted, videoAborted, upController, signalAborted>>
    /\ UNCHANGED <<playerVars, sourceVars, readerVars, unitVars>>

(***************************************************************************)
(* RTSReader: packets, their bytes, and the parser                         *)
(***************************************************************************)
NoHeader == [set |-> FALSE, bytes |-> <<>>]

NoPacket == [kind |-> "none"]

NoTimes == [t \in 0..MaxTrack |-> Undefined]

Take(s, n) == SubSeq(s, 1, n)

Drop(s, n) == SubSeq(s, n + 1, Len(s))

\* a media packet (type 1 audio, 2 video); abs tells that its header carries the time
MediaPacket(type, track, abs, time, duration, key, size) ==
    [kind |-> "media", type |-> type, track |-> track, abs |-> abs, time |-> time,
     duration |-> duration, key |-> key, size |-> size]

\* an INIT TRACKS packet
InitPacket(video, audio) == [kind |-> "init", video |-> video, audio |-> audio]

\* the header of a packet, one 7-bit value per byte: the track and the type, the time
\* the first time, the duration with the flags (no composition offset), and the size
\* of the payload in a stream
EncodeHeader(p, sized) ==
    IF p.kind = "init"
    THEN <<3, p.video + 1, p.audio + 1>>
    ELSE <<(p.track + 1) * 4 + p.type>>
         \o (IF p.abs THEN <<p.time>> ELSE <<>>)
         \o <<p.duration * 4 + (IF p.key THEN 1 ELSE 0)>>
         \o (IF sized THEN <<p.size>> ELSE <<>>)

\* the payload of a packet
Payload(p) == IF p.kind = "init" THEN <<>> ELSE [i \in 1..p.size |-> 0]

\* what the reader hands over: a sample to onAudio or onVideo, or a track alone
SampleEvent(type, track, time, duration, key, size) ==
    [kind |-> IF type = 1 THEN "audio" ELSE "video", track |-> track, time |-> time,
     duration |-> duration, key |-> key, size |-> size]

TrackEvent(kind, track) ==
    [kind |-> kind, track |-> track, time |-> Undefined, duration |-> 0, key |-> FALSE,
     size |-> 0]

\* the events a packet stands for
Events(p) ==
    IF p.kind = "init"
    THEN <<TrackEvent("video", p.video), TrackEvent("audio", p.audio)>>
    ELSE <<SampleEvent(p.type, p.track, p.time, p.duration, p.key, p.size)>>

RECURSIVE EventsOf(_)
EventsOf(packets) ==
    IF packets = <<>> THEN <<>> ELSE Events(Head(packets)) \o EventsOf(Tail(packets))

\* header.read7Bit() at a position of the header
Read7Bit(h, i) == IF i <= Len(h) THEN h[i] ELSE 0

NextTimeSame(time, duration) == time

\* "this._nextTimes.set(trackId, time + duration)"
NextTime(time, duration) == time + duration

\* RTSReader._parse on the bytes not read yet; r holds _header, _nextTimes, the
\* events emitted, the packets finished and the value returned
RECURSIVE ParseLoop(_, _)
ParseLoop(r, rest) ==
    IF rest = <<>>
    THEN [r EXCEPT !.remaining = 0]
    ELSE IF ~r.header.set /\ ~r.withSize
    THEN [r EXCEPT !.header = [set |-> TRUE, bytes |-> rest], !.remaining = 0]
    ELSE IF ~r.header.set /\ Len(rest) - 1 < rest[1]
    THEN [r EXCEPT !.remaining = Len(rest)]
    ELSE LET h == IF r.header.set THEN r.header.bytes ELSE SubSeq(rest, 2, 1 + rest[1])
             body == IF r.header.set THEN rest ELSE Drop(rest, 1 + rest[1])
             type == Read7Bit(h, 1) % 4
             trackId == (Read7Bit(h, 1) \div 4) - 1
             known == trackId \in 0..MaxTrack /\ r.nextTimes[trackId] # Undefined
             time == IF known THEN r.nextTimes[trackId] ELSE Read7Bit(h, 2)
             at == IF known THEN 2 ELSE 3
             value == Read7Bit(h, at)
             duration == value \div 4
             offset == IF (value \div 2) % 2 = 1 THEN 1 ELSE 0
             size == IF r.withSize THEN Read7Bit(h, at + 1 + offset) ELSE Len(body)
         IN  IF trackId = -1 /\ type = 3
             THEN ParseLoop([r EXCEPT !.header = NoHeader,
                                      !.nextTimes = NoTimes,
                                      !.emitted = @ \o <<TrackEvent("video", Read7Bit(h, 2) - 1),
                                                         TrackEvent("audio", Read7Bit(h, 3) - 1)>>,
                                      !.count = @ + 1],
                            body)
             ELSE IF trackId = -1 \/ type = 0 \/ trackId > MaxTrack
             THEN [r EXCEPT !.header = [set |-> TRUE, bytes |-> h], !.remaining = 0]
             ELSE IF Len(body) < size
             THEN [r EXCEPT !.header = [set |-> TRUE, bytes |-> h], !.remaining = Len(body)]
             ELSE ParseLoop([r EXCEPT !.header = NoHeader,
                                      !.nextTimes[trackId] = NextTime(time, duration),
                                      !.emitted = @ \o <<SampleEvent(type, trackId, time, duration,
                                                                     value % 2 = 1, size)>>,
                                      !.count = @ + 1],
                            Drop(body, size))

\* Reader.read(data) that would parse the new bytes alone, the bytes kept being lost
ReaderReadForgets(chunk) ==
    LET packet == chunk
        r == ParseLoop([header |-> readerHeader, nextTimes |-> nextTimes, emitted |-> <<>>,
                        count |-> 0, withSize |-> withSize, remaining |-> 0],
                       packet)
        remaining == Min(r.remaining, Len(packet))
    IN  /\ readerHeader' = r.header
        /\ nextTimes' = r.nextTimes
        /\ emitted' = r.emitted
        /\ readerData' = Drop(packet, Len(packet) - remaining)
        /\ parsed' = Take(unread, Min(r.count, Len(unread)))
        /\ unread' = Drop(unread, Min(r.count, Len(unread)))

\* Reader.read(data) of an RTSReader: the bytes kept are parsed again with the new ones
ReaderRead(chunk) ==
    LET packet == readerData \o chunk
        r == ParseLoop([header |-> readerHeader, nextTimes |-> nextTimes, emitted |-> <<>>,
                        count |-> 0, withSize |-> withSize, remaining |-> 0],
                       packet)
        remaining == Min(r.remaining, Len(packet))
    IN  /\ readerHeader' = r.header
        /\ nextTimes' = r.nextTimes
        /\ emitted' = r.emitted
        /\ readerData' = Drop(packet, Len(packet) - remaining)
        /\ parsed' = Take(unread, Min(r.count, Len(unread)))
        /\ unread' = Drop(unread, Min(r.count, Len(unread)))

\* the packets a sender can send next: a media packet carries its time the first
\* time on its track, and the time of the track afterwards
MediaPackets ==
    {MediaPacket(type, track, senderTimes[track] = Undefined, time, duration, key, size) :
        type \in {1, 2}, track \in 0..MaxTrack, time \in 0..MaxStreamTime,
        duration \in 0..MaxPacketDuration, key \in BOOLEAN, size \in 1..MaxPayload}

Sendable ==
    {p \in MediaPackets :
        /\ p.time = IF p.abs THEN Min(p.time, MaxPacketTime) ELSE senderTimes[p.track]
        /\ p.time + p.duration <= MaxStreamTime}
    \cup {InitPacket(video, audio) : video \in {-1, 0}, audio \in {-1, 1}}

\* what a packet sent does to the times of the sender
Sent(p) ==
    /\ senderTimes' = IF p.kind = "init" THEN NoTimes
                      ELSE [senderTimes EXCEPT ![p.track] = p.time + p.duration]
    /\ emitted' = <<>>
    /\ parsed' = <<>>
    /\ readPacket' = NoPacket
    /\ UNCHANGED <<withSize, readerHeader, nextTimes, readerData>>
    /\ UNCHANGED <<playerVars, sourceVars, selectVars, adaptiveVars, unitVars>>

\* a packet is sent to the reader the way the reader takes it: in a stream, its bytes
\* after the size of its header; on a framed transport, its header in one message
\* and its payload, if it has one, in the next
SendPacket ==
    /\ wire = <<>>
    /\ \E p \in Sendable :
          /\ wire' = IF withSize
                     THEN <<[bytes |-> <<Len(EncodeHeader(p, TRUE))>> \o EncodeHeader(p, TRUE)
                                          \o Payload(p),
                             packet |-> p]>>
                     ELSE IF p.kind = "init"
                     THEN <<[bytes |-> EncodeHeader(p, FALSE), packet |-> p]>>
                     ELSE <<[bytes |-> EncodeHeader(p, FALSE), packet |-> NoPacket],
                            [bytes |-> Payload(p), packet |-> NoPacket]>>
          /\ unread' = Append(unread, p)
          /\ Sent(p)

\* a packet (INIT TRACKS, or a key frame of one byte of the video track 0) is sent on
\* a framed transport in one message, header and payload
SendMessage ==
    /\ ~withSize
    /\ wire = <<>>
    /\ \E p \in Sendable :
          /\ p.kind = "media" => (p.type = 2 /\ p.track = 0 /\ p.key /\ p.size = 1)
          /\ wire' = <<[bytes |-> EncodeHeader(p, FALSE) \o Payload(p), packet |-> p]>>
          /\ UNCHANGED unread
          /\ Sent(p)

\* the packets of a stream: INIT TRACKS with both tracks, and the key frames of video
StreamPackets ==
    {p \in Sendable : IF p.kind = "init" THEN p.video = 0 /\ p.audio = 1
                                          ELSE p.type = 2 /\ p.key /\ p.duration >= 1}

\* a sender writes one more packet at the end of a stream of bytes that the reader has
\* not read to its end: the size of its header, its header and its payload
StreamPacket ==
    /\ withSize
    /\ Len(unread) < MaxPending
    /\ \E p \in StreamPackets :
          LET bytes == <<Len(EncodeHeader(p, TRUE))>> \o EncodeHeader(p, TRUE) \o Payload(p)
          IN  /\ wire' = IF wire = <<>>
                         THEN <<[bytes |-> bytes, packet |-> NoPacket]>>
                         ELSE <<[bytes |-> Head(wire).bytes \o bytes, packet |-> NoPacket]>>
              /\ unread' = Append(unread, p)
              /\ Sent(p)

\* the transport hands the reader the next message, or in a stream any part of it
Deliver ==
    /\ wire # <<>>
    /\ \E n \in 1..Len(Head(wire).bytes) :
          /\ ~withSize => n = Len(Head(wire).bytes)
          /\ ReaderRead(Take(Head(wire).bytes, n))
          /\ \A t \in 0..MaxTrack : nextTimes'[t] <= MaxStreamTime
          /\ wire' = IF n = Len(Head(wire).bytes)
                     THEN Tail(wire)
                     ELSE <<[bytes |-> Drop(Head(wire).bytes, n), packet |-> NoPacket]>>
                          \o Tail(wire)
          /\ readPacket' = IF n = Len(Head(wire).bytes) /\ readerData = <<>>
                           THEN Head(wire).packet
                           ELSE NoPacket
    /\ UNCHANGED <<withSize, senderTimes>>
    /\ UNCHANGED <<playerVars, sourceVars, selectVars, adaptiveVars, unitVars>>

\* new RTSReader({ withSize }), and a sender that has sent nothing
NewReader(size) ==
    /\ withSize = size
    /\ readerHeader = NoHeader
    /\ nextTimes = NoTimes
    /\ readerData = <<>>
    /\ wire = <<>>
    /\ senderTimes = NoTimes
    /\ unread = <<>>
    /\ emitted = <<>>
    /\ parsed = <<>>
    /\ readPacket = NoPacket

(***************************************************************************)
(* Source.fixTimestamp followed on holes and overlaps of any size          *)
(***************************************************************************)
NoFix == [type |-> "none"]

\* the call of Source.fixTimestamp made by readAudio or readVideo: the type, the
\* currentTime given, the sample read, the sample after the call and the sample
\* handed to _onSample
FixCall(type, current, read, fixed, delivered) ==
    [type |-> type, current |-> current,
     read |-> [time |-> read.time, duration |-> read.duration],
     fixed |-> [time |-> fixed.time, duration |-> fixed.duration],
     delivered |-> [time |-> delivered.time, duration |-> delivered.duration]]

\* Source.readAudio(trackId, sample) of an enabled track
RepairAudio ==
    \E time \in 0..MaxRepairTime, duration \in 0..MaxSampleDuration :
        LET read == [time |-> time, duration |-> duration, timed |-> TRUE]
            sample == FixedSample("audio", audioTime, read)
        IN  /\ ~closed
            /\ SampleEnd(sample) <= MaxRepairTime + 1
            /\ audioTime' = SampleEnd(sample)
            /\ FixLiveTime(SampleEnd(sample))
            /\ lastSample' = Delivered("audio", sample, time)
            /\ fixCall' = FixCall("audio", audioTime, read, sample, sample)
            /\ UNCHANGED <<videoTime, dataTime, hasMetadata>>
            /\ UNCHANGED notRepairVars

\* Source.readVideo(trackId, sample) of an enabled track
RepairVideo ==
    \E time \in 0..MaxRepairTime, duration \in (-MaxSampleDuration)..MaxSampleDuration :
        LET extendableDuration == IF duration < 0 THEN -duration ELSE 0
            read == [time |-> time, duration |-> IF duration < 0 THEN -duration ELSE duration,
                     timed |-> TRUE]
            sample == FixedSample("video", videoTime, read)
            delay == Max(audioTime, Max(SampleEnd(sample), dataTime)) - SampleEnd(sample)
            extended == IF extendableDuration # 0 /\ delay > 0
                        THEN [sample EXCEPT !.duration = @ + delay]
                        ELSE sample
        IN  /\ ~closed
            /\ SampleEnd(extended) <= MaxRepairTime + 1
            /\ videoTime' = SampleEnd(extended)
            /\ FixLiveTime(SampleEnd(sample))
            /\ lastSample' = Delivered("video", extended, time)
            /\ fixCall' = FixCall("video", videoTime, read, sample, extended)
            /\ UNCHANGED <<audioTime, dataTime, hasMetadata>>
            /\ UNCHANGED notRepairVars

(***************************************************************************)
(* Metadata: the tracks of a manifest and Metadata.fix                     *)
(***************************************************************************)
\* new Metadata(): no track
NoMetadata == [tracks |-> <<>>, audioTracks |-> <<>>, videoTracks |-> <<>>, dataTracks |-> <<>>]

\* Media.Type
TypeData == 0

TypeAudio == 1

TypeVideo == 2

\* the server publishes one more track, with a type and a bandwidth and without id
ManifestTrack ==
    /\ Len(manifest) < MaxTracks
    /\ \E type \in {TypeData, TypeAudio, TypeVideo}, bandwidth \in 0..MaxTrackBandwidth :
          manifest' = Append(manifest, [type |-> type, bandwidth |-> bandwidth])
    /\ UNCHANGED <<metadata, mediaTracks, fixes>>
    /\ UNCHANGED notMetadataVars

\* new Metadata(obj): a MediaTrack for each track of obj.tracks, its id being its
\* rank (track.id ?? trackId++)
NewMetadata(obj) ==
    [md |-> [NoMetadata EXCEPT !.tracks = [i \in 1..Len(obj) |-> i - 1]],
     mt |-> [id \in 0..(Len(obj) - 1) |->
                [type |-> obj[id + 1].type, bandwidth |-> obj[id + 1].bandwidth,
                 up |-> Undefined, down |-> Undefined]]]

\* Array.prototype.sort with (track1, track2) => track2.bandwidth - track1.bandwidth:
\* a stable sort, the tracks of the same bandwidth keep their order
RECURSIVE InsertTrack(_, _, _)
InsertTrack(id, sorted, mt) ==
    IF sorted = <<>>
    THEN <<id>>
    ELSE IF mt[Head(sorted)].bandwidth >= mt[id].bandwidth
         THEN <<Head(sorted)>> \o InsertTrack(id, Tail(sorted), mt)
         ELSE <<id>> \o sorted

RECURSIVE SortTracks(_, _)
SortTracks(ids, mt) ==
    IF ids = <<>>
    THEN <<>>
    ELSE InsertTrack(ids[Len(ids)], SortTracks(SubSeq(ids, 1, Len(ids) - 1), mt), mt)

\* the list of the Metadata for a type
Medias(type) ==
    IF type = TypeAudio THEN "audioTracks"
    ELSE IF type = TypeVideo THEN "videoTracks" ELSE "dataTracks"

\* the elements of a sequence
Range(seq) == {seq[i] : i \in 1..Len(seq)}

\* the track is linked to the track before it, which is not linked back
RECURSIVE FillTracksOneWay(_, _)
FillTracksOneWay(rest, f) ==
    IF rest = <<>>
    THEN f
    ELSE LET id == Head(rest)
             medias == f.md[Medias(f.mt[id].type)]
             up == IF medias = <<>> THEN Undefined ELSE medias[Len(medias)]
         IN  IF id \in Range(f.md.tracks)
             THEN FillTracksOneWay(Tail(rest), f)
             ELSE FillTracksOneWay(Tail(rest),
                     [md |-> [f.md EXCEPT !.tracks = Append(@, id),
                                          ![Medias(f.mt[id].type)] = Append(@, id)],
                      mt |-> [f.mt EXCEPT ![id].down = Undefined, ![id].up = up]])

\* Metadata.fix, "Fill related collection and make each track unique"
RECURSIVE FillTracks(_, _)
FillTracks(rest, f) ==
    IF rest = <<>>
    THEN f
    ELSE LET id == Head(rest)
             medias == f.md[Medias(f.mt[id].type)]
             up == IF medias = <<>> THEN Undefined ELSE medias[Len(medias)]
             linked == [f.mt EXCEPT ![id].down = Undefined, ![id].up = up]
         IN  IF id \in Range(f.md.tracks)
             THEN FillTracks(Tail(rest), f)
             ELSE FillTracks(Tail(rest),
                     [md |-> [f.md EXCEPT !.tracks = Append(@, id),
                                          ![Medias(f.mt[id].type)] = Append(@, id)],
                      mt |-> IF up # Undefined
                             THEN [linked EXCEPT ![up].down = id]
                             ELSE linked])

\* Metadata.fix()
Fix(md, mt) ==
    FillTracks(SortTracks(md.videoTracks \o md.audioTracks \o md.dataTracks \o md.tracks, mt),
               [md |-> [md EXCEPT !.audioTracks = <<>>, !.videoTracks = <<>>, !.tracks = <<>>],
                mt |-> mt])

\* a manifest is received: new Metadata(manifest), then the fix() of Source.readMetadata
MetadataFix ==
    /\ LET new == NewMetadata(manifest)
           fixed == Fix(new.md, new.mt)
       IN  /\ metadata' = fixed.md
           /\ mediaTracks' = fixed.mt
    /\ fixes' = 1
    /\ UNCHANGED manifest
    /\ UNCHANGED notMetadataVars

\* fix() is called once more on the Metadata it was called on
MetadataFixAgain ==
    /\ fixes \in 1..(MaxFixes - 1)
    /\ LET fixed == Fix(metadata, mediaTracks)
       IN  /\ metadata' = fixed.md
           /\ mediaTracks' = fixed.mt
    /\ fixes' = fixes + 1
    /\ UNCHANGED manifest
    /\ UNCHANGED notMetadataVars

(***************************************************************************)
(* MediaPlayback: the MediaBuffer of the audio and of the video, made when *)
(* a track is enabled, fed by appendAudio and appendVideo, and close.      *)
(***************************************************************************)
\* new MediaPlayback(mediaSource): no buffer yet
NewMediaPlayback ==
    [mediaSource |-> TRUE, audioBuffer |-> {}, videoBuffer |-> {}, buffers |-> <<>>,
     onClose |-> 0, closeCalls |-> 0]

\* get closed
MediaPlaybackClosed(p) == p.audioBuffer = {} /\ p.videoBuffer = {}

\* MediaBuffer.abort of the buffers of ids: the SourceBuffer is let go, the packets dropped
BufferAbort(p, ids) ==
    [p EXCEPT !.buffers = [i \in DOMAIN p.buffers |->
                              IF i \in ids
                              THEN [p.buffers[i] EXCEPT !.buffer = FALSE]
                              ELSE p.buffers[i]]]

\* MediaPlayback.close(error)
MediaPlaybackClose(p) ==
    IF ~p.mediaSource
    THEN p
    ELSE LET a == [p EXCEPT !.mediaSource = FALSE]
             b == IF a.audioBuffer # {}
                  THEN [BufferAbort(a, a.audioBuffer) EXCEPT !.videoBuffer = {}]
                  ELSE a
             c == IF b.videoBuffer # {}
                  THEN [BufferAbort(b, b.videoBuffer) EXCEPT !.videoBuffer = {}]
                  ELSE b
         IN  [c EXCEPT !.onClose = @ + 1]

\* MediaPlayback._newBuffer(mimeType): the playback after it and the buffer returned, if any
NewBuffer(p, isVideo, throws) ==
    IF ~p.mediaSource
    THEN [p |-> p, buffer |-> {}]
    ELSE IF throws
         THEN [p |-> MediaPlaybackClose(p), buffer |-> {}]
         ELSE [p |-> [p EXCEPT !.buffers = Append(@, [isVideo |-> isVideo, buffer |-> TRUE,
                                                       trackId |-> Undefined, written |-> 0])],
               buffer |-> {Len(p.buffers) + 1}]

\* MediaBuffer.append(metadata, trackId, sample) of the buffer i and its onError handler
BufferAppend(p, i, trackId, outcome) ==
    LET init == trackId # p.buffers[i].trackId
    IN  IF init /\ outcome = "Track without metadata"
        THEN MediaPlaybackClose(p)
        ELSE LET a == IF init THEN [p EXCEPT !.buffers[i].trackId = trackId] ELSE p
             IN  IF init /\ outcome = "init error"
                 THEN MediaPlaybackClose(a)
                 ELSE [a EXCEPT !.buffers[i].written = @ + 1]

\* the id of the buffer of a field
TheBuffer(field) == CHOOSE i \in field : TRUE

\* set audioEnabled(value)
AudioEnabledSet ==
    /\ \E value \in BOOLEAN, throws \in BOOLEAN :
          /\ (mediaPlayback.audioBuffer # {}) # value
          /\ IF value
             THEN LET n == NewBuffer(mediaPlayback, FALSE, throws)
                  IN  mediaPlayback' = [n.p EXCEPT !.audioBuffer = n.buffer]
             ELSE mediaPlayback' = MediaPlaybackClose(mediaPlayback)
    /\ UNCHANGED notMediaPlaybackVars

\* set videoEnabled(value)
VideoEnabledSet ==
    /\ \E value \in BOOLEAN, throws \in BOOLEAN :
          /\ (mediaPlayback.videoBuffer # {}) # value
          /\ IF value
             THEN LET n == NewBuffer(mediaPlayback, TRUE, throws)
                  IN  mediaPlayback' = [n.p EXCEPT !.videoBuffer = n.buffer]
             ELSE mediaPlayback' = MediaPlaybackClose(mediaPlayback)
    /\ UNCHANGED notMediaPlaybackVars

\* what an append can come to
AppendOutcomes == {"written", "Track without metadata", "init error"}

\* whether the buffer of a field can take one more sample
Writable(p, field) ==
    IF field = {} THEN TRUE ELSE p.buffers[TheBuffer(field)].written < MaxWritten

\* appendAudio(metadata, trackId, sample)
AppendAudio ==
    /\ \E trackId \in 0..MaxBufferTrack, outcome \in AppendOutcomes :
          /\ Writable(mediaPlayback, mediaPlayback.audioBuffer)
          /\ mediaPlayback' =
                 IF mediaPlayback.audioBuffer # {}
                 THEN BufferAppend(mediaPlayback, TheBuffer(mediaPlayback.audioBuffer), trackId, outcome)
                 ELSE MediaPlaybackClose(mediaPlayback)
    /\ UNCHANGED notMediaPlaybackVars

\* appendVideo(metadata, trackId, sample)
AppendVideo ==
    /\ \E trackId \in 0..MaxBufferTrack, outcome \in AppendOutcomes :
          /\ Writable(mediaPlayback, mediaPlayback.videoBuffer)
          /\ mediaPlayback' =
                 IF mediaPlayback.videoBuffer # {}
                 THEN BufferAppend(mediaPlayback, TheBuffer(mediaPlayback.videoBuffer), trackId, outcome)
                 ELSE MediaPlaybackClose(mediaPlayback)
    /\ UNCHANGED notMediaPlaybackVars

\* the browser aborts a SourceBuffer: onabort, abort() then onError("SourceBuffer aborted")
SourceBufferAborted ==
    /\ \E i \in DOMAIN mediaPlayback.buffers :
          /\ mediaPlayback.buffers[i].buffer
          /\ mediaPlayback' = MediaPlaybackClose(BufferAbort(mediaPlayback, {i}))
    /\ UNCHANGED notMediaPlaybackVars

\* Player.stop: this._playback?.close()
PlayerClosesPlayback ==
    /\ mediaPlayback.closeCalls < MaxCloseCalls
    /\ mediaPlayback' = [MediaPlaybackClose(mediaPlayback) EXCEPT !.closeCalls = @ + 1]
    /\ UNCHANGED notMediaPlaybackVars

(***************************************************************************)
(* AdaptiveRetry, made with its default parameters as HTTPAdaptiveSource   *)
(* makes it, and the clock it reads.                                       *)
(***************************************************************************)
LEARNING_TRY_STEP == 3000
MAXIMUM_TRY_DELAY == 30000

\* reset(), which the constructor ends with
Reset(r) == [r EXCEPT !.tryDelay = LEARNING_TRY_STEP, !.appreciationTime = 0, !.success = FALSE]

NewAdaptiveRetry == Reset([tryDelay |-> 0, appreciationTime |-> 0, success |-> FALSE])

\* increase()
Increase(r) ==
    [r EXCEPT !.tryDelay = IF @ + LEARNING_TRY_STEP <= MAXIMUM_TRY_DELAY
                           THEN @ + LEARNING_TRY_STEP ELSE MAXIMUM_TRY_DELAY]

\* decrease()
Decrease(r) ==
    [r EXCEPT !.tryDelay = IF @ - LEARNING_TRY_STEP >= LEARNING_TRY_STEP
                           THEN @ - LEARNING_TRY_STEP ELSE LEARNING_TRY_STEP]

\* try() at the time t: the AdaptiveRetry after it and the value returned
Try(r, t) ==
    LET a == IF r.appreciationTime = 0
             THEN LET b == [r EXCEPT !.appreciationTime = t]
                  IN  IF b.success THEN Decrease(b) ELSE b
             ELSE r
        elapsed == t - a.appreciationTime
    IN  IF elapsed < a.tryDelay
        THEN [r |-> a, result |-> FALSE]
        ELSE [r |-> [a EXCEPT !.appreciationTime = 0, !.success = TRUE], result |-> TRUE]

\* raise() that increases the delay whether the last try had succeeded or not
RaiseAlways(r) == Increase([r EXCEPT !.appreciationTime = 0, !.success = FALSE])

\* raise()
RaiseFail(r) ==
    LET a == [r EXCEPT !.appreciationTime = 0]
    IN  IF a.success THEN Increase([a EXCEPT !.success = FALSE]) ELSE a

NoRetryCall == [op |-> "none", result |-> FALSE]

AdaptiveRetryTry ==
    /\ LET call == Try(retry, now)
       IN  /\ retry' = call.r
           /\ retryCall' = [op |-> "try", result |-> call.result]
    /\ UNCHANGED now
    /\ UNCHANGED notRetryVars

AdaptiveRetryRaise ==
    /\ retry' = RaiseFail(retry)
    /\ retryCall' = [op |-> "raise", result |-> FALSE]
    /\ UNCHANGED now
    /\ UNCHANGED notRetryVars

AdaptiveRetryReset ==
    /\ retry' = Reset(retry)
    /\ retryCall' = [op |-> "reset", result |-> FALSE]
    /\ UNCHANGED now
    /\ UNCHANGED notRetryVars

\* Util.time() moves on
ClockTick ==
    /\ now + TimeStep <= MaxNow
    /\ now' = now + TimeStep
    /\ retryCall' = NoRetryCall
    /\ UNCHANGED retry
    /\ UNCHANGED notRetryVars

(***************************************************************************)
(* Source: the samples held in _firstSamples until the audio and the video *)
(* track are both known, by _updateTrack and _onSample at the end of       *)
(* readAudio and readVideo.  A sample is its track and its rank of arrival.*)
(***************************************************************************)
\* the Source when start() has run: no track known, an empty Media.Samples
NewIngestion ==
    [tracks |-> NoTracks, first |-> TRUE, entries |-> <<>>, closed |-> FALSE,
     sunk |-> <<>>, flushed |-> 0, arrived |-> 0]

NoIngest == [op |-> "none", waiting |-> FALSE, sample |-> <<>>, held |-> {}, out |-> <<>>]

\* Media.Samples.push(trackId, sample): the list of the track, made at its first sample
SamplesPush(entries, trackId, sample) ==
    IF \E i \in DOMAIN entries : entries[i].track = trackId
    THEN [i \in DOMAIN entries |->
             IF entries[i].track = trackId
             THEN [entries[i] EXCEPT !.list = Append(@, sample)]
             ELSE entries[i]]
    ELSE Append(entries, [track |-> trackId, list |-> <<sample>>])

\* Source.close(error)
IngestionClose(g) ==
    IF g.closed
    THEN g
    ELSE [g EXCEPT !.closed = TRUE, !.tracks = NoTracks, !.first = FALSE, !.entries = <<>>]

\* both this.audioTrack and this.videoTrack are set, be it to -1
TracksKnown(tracks) == tracks.audio # Undefined /\ tracks.video # Undefined

\* Source._updateTrack(type, track); closes tells that onTrackChange closes the Source
UpdateTrack(g, type, track, closes) ==
    IF ~g.closed /\ g.tracks[type] # track
    THEN LET a == [g EXCEPT !.tracks[type] = track]
         IN  IF TracksKnown(a.tracks) /\ closes THEN IngestionClose(a) ELSE a
    ELSE g

\* the flush without the test of the track, every list delivered
RECURSIVE FlushListAll(_, _)
FlushListAll(entries, tracks) ==
    IF entries = <<>>
    THEN <<>>
    ELSE Head(entries).list \o FlushListAll(Tail(entries), tracks)

\* Source._onSample, the flush: the samples given to onSample, list after list in the
\* order of the Map, the lists of the tracks that are neither the audio nor the video
\* track passed over
RECURSIVE FlushList(_, _)
FlushList(entries, tracks) ==
    IF entries = <<>>
    THEN <<>>
    ELSE LET e == Head(entries)
         IN  (IF e.track # tracks.audio /\ e.track # tracks.video THEN <<>> ELSE e.list)
             \o FlushList(Tail(entries), tracks)

\* Source._onSample(trackId, sample): the Source after it and what onSample was given;
\* closeAt is the call of onSample in which the listener closes the Source
OnSample(g, trackId, sample, closeAt) ==
    IF g.closed
    THEN [g |-> g, out |-> <<>>]
    ELSE IF g.first
         THEN LET a == IF sample # <<>>
                       THEN [g EXCEPT !.entries = SamplesPush(@, trackId, sample[1])]
                       ELSE g
              IN  IF ~TracksKnown(a.tracks)
                  THEN [g |-> a, out |-> <<>>]
                  ELSE LET list == FlushList(a.entries, a.tracks)
                       IN  IF closeAt \in 1..Len(list)
                           THEN [g |-> IngestionClose([a EXCEPT !.sunk = @ \o SubSeq(list, 1, closeAt),
                                                                !.flushed = closeAt]),
                                 out |-> SubSeq(list, 1, closeAt)]
                           ELSE [g |-> [a EXCEPT !.sunk = @ \o list, !.flushed = Len(list),
                                                 !.first = FALSE, !.entries = <<>>],
                                 out |-> list]
         ELSE IF sample # <<>>
              THEN LET a == [g EXCEPT !.sunk = @ \o sample]
                   IN  [g |-> IF closeAt = 1 THEN IngestionClose(a) ELSE a, out |-> sample]
              ELSE [g |-> g, out |-> <<>>]

\* the samples held by the lists
Held(entries) == UNION {Range(entries[i].list) : i \in DOMAIN entries}

\* the end of readAudio and readVideo: this._onSample(this._updateTrack(type, trackId), sample),
\* the sample of a disabled track being let go before
ReadSample(type, trackId, hasSample, closeAt) ==
    /\ hasSample => ingestion.arrived < MaxArrivals
    /\ LET n == ingestion.arrived + 1
           sample == IF hasSample /\ trackId >= 0 THEN <<[track |-> trackId, n |-> n]>> ELSE <<>>
           a == UpdateTrack(ingestion, type, trackId, closeAt = 0)
           r == OnSample(a, trackId, sample, closeAt)
       IN  /\ ingestion' = [r.g EXCEPT !.arrived = IF hasSample THEN n ELSE @]
           /\ ingestCall' = [op |-> type, waiting |-> ingestion.first, sample |-> sample,
                             held |-> Held(ingestion.entries) \cup Range(sample), out |-> r.out]
    /\ UNCHANGED notIngestionVars

\* the calls of onSample and onTrackChange in which the listener can close the Source,
\* the last value for never
ClosesAt == 0..(MaxArrivals + 1)

\* Source.readAudio(trackId, sample)
ReadAudioSample ==
    \E trackId \in {-1} \cup AudioIds, hasSample \in BOOLEAN, closeAt \in ClosesAt :
        ReadSample("audio", trackId, hasSample, closeAt)

\* Source.readVideo(trackId, sample)
ReadVideoSample ==
    \E trackId \in {-1} \cup VideoIds, hasSample \in BOOLEAN, closeAt \in ClosesAt :
        ReadSample("video", trackId, hasSample, closeAt)

\* Source.close(error) from outside the ingestion
IngestionCloses ==
    /\ ~ingestion.closed
    /\ ingestion' = IngestionClose(ingestion)
    /\ ingestCall' = NoIngest
    /\ UNCHANGED notIngestionVars

\* the parts followed on their own, before anything is done with them
(***************************************************************************)
(* HTTPAdaptiveSource._downloadSequence of a video sequence, called by     *)
(* _play without length                                                    *)
(***************************************************************************)
\* no range header
NoRange == -1

\* the Source, the playing object and the locals before the call; cmcd tells that
\* Source.cmcd is not NONE and query that Source.cmcdMode is QUERY
NewDownload ==
    [pc |-> "idle", reliable |-> FALSE, buffering |-> FALSE, low |-> FALSE, down |-> FALSE,
     cmcd |-> FALSE, query |-> FALSE, maxSequenceDuration |-> 0, videoTime |-> 0,
     audioTime |-> 0, bufferAmount |-> 0, startVideoTime |-> 0, startBufferAmount |-> 0,
     onlyKeyFrame |-> FALSE, videoAborted |-> FALSE, length |-> Undefined, aborted |-> FALSE,
     onVideo |-> "none", chunks |-> 0, packet |-> NoPacket, requests |-> <<>>, forwarded |-> <<>>,
     skipping |-> <<>>, head |-> [answered |-> FALSE, ok |-> FALSE, first |-> Undefined],
     status |-> 0, error |-> FALSE, closeError |-> "none"]

\* a request as the transport sees it
HttpRequest(method, range) == [method |-> method, range |-> range]

\* Source.fetchMedia(url, type, { method: 'GET', signal, headers }): with CMCD in
\* headers, options.headers becomes the CMCD headers alone
FetchMedia(d, range) ==
    HttpRequest("GET", IF d.cmcd /\ ~d.query THEN NoRange ELSE range)

\* "isLastRendition && !this.reliable && !playing.buffering && playing.bufferState
\* === BufferState.LOW", the track being a video track of the metadata
LastChance(d) == ~d.down /\ ~d.reliable /\ ~d.buffering /\ d.low

\* from "let response; let reader; let headers;" to the first fetch of the loop
SendGet(d) ==
    [d EXCEPT !.pc = "get",
              !.startBufferAmount = d.bufferAmount,
              !.startVideoTime = d.videoTime,
              !.requests = Append(@, FetchMedia(d, IF Truthy(d.length) THEN d.length - 1
                                                                         ELSE NoRange))]

\* _downloadSequence(playing, this._videoController, trackId, sequence) up to its
\* first await
DownloadSequence(d) ==
    IF LastChance(d)
    THEN [d EXCEPT !.onlyKeyFrame = TRUE,
                   !.pc = "head",
                   !.requests = Append(@, HttpRequest("HEAD", NoRange))]
    ELSE SendGet(d)

\* "return response" of _downloadSequence
Return(d, status, error) == [d EXCEPT !.pc = "returned", !.status = status, !.error = error]

\* "Number(response.headers.get('max-sequence-duration')) || NaN" kept if it is a number
MaxSequenceDuration(d, header) ==
    [d EXCEPT !.maxSequenceDuration = IF Truthy(header) THEN header ELSE @]

\* the HEAD request is answered: ok tells a 2xx answer, first the value of its
\* first-frame-length header and window the one of max-sequence-duration
HeadResponse(d, ok, first, window) ==
    LET d1 == [MaxSequenceDuration(d, window) EXCEPT
                  !.head = [answered |-> TRUE, ok |-> ok, first |-> first]]
        length == IF first = Undefined THEN 0 ELSE first
    IN  IF ~ok
        THEN Return(d1, 404, TRUE)
        ELSE IF length = 0
        THEN Return(d1, 400, TRUE)
        ELSE SendGet([d1 EXCEPT !.length = length])

\* the GET request is answered
GetResponse(d, ok, window) ==
    LET d1 == MaxSequenceDuration(d, window)
    IN  IF ~ok THEN Return(d1, 404, TRUE) ELSE [d1 EXCEPT !.pc = "body"]

\* Source.readVideo(trackId, sample) of the track enabled, the sample following the
\* video read so far; duration is negative when it can be extended
ReadVideoOf(d, hasSample, key, duration) ==
    IF ~hasSample
    THEN [d EXCEPT !.forwarded = Append(@, [sample |-> FALSE, key |-> FALSE, read |-> 0,
                                            duration |-> 0])]
    ELSE LET extendableDuration == IF duration < 0 THEN -duration ELSE 0
             sample == FixedSample("video", d.videoTime,
                                   [time |-> d.videoTime,
                                    duration |-> IF duration < 0 THEN -duration ELSE duration,
                                    timed |-> TRUE])
             end == SampleEnd(sample)
             delay == Max(d.audioTime, end) - end
             extends == extendableDuration # 0 /\ delay > 0
         IN  [d EXCEPT !.videoTime = IF extends THEN end + delay ELSE end,
                       !.skipping = IF extends THEN Append(@, delay) ELSE @,
                       !.forwarded = Append(@, [sample |-> TRUE, key |-> key, read |-> duration,
                                                duration |-> sample.duration
                                                             + (IF extends THEN delay ELSE 0)])]

\* the condition of reader.onVideo under which the video is aborted
Triggers(d, hasSample, key) ==
    (d.startBufferAmount # 0 /\ d.bufferAmount = 0) \/ (hasSample /\ key /\ d.onlyKeyFrame)

\* "Math.max(1, this._maxSequenceDuration - this.videoTime + videoTime)", or the
\* duration of the sample without max-sequence-duration
Stretched(d, duration) ==
    IF d.maxSequenceDuration # 0
    THEN Max(1, d.maxSequenceDuration - d.videoTime + d.startVideoTime)
    ELSE duration

\* a reader.onVideo that goes on reading after it has aborted the video
OnVideoGoesOn(d, hasSample, key, duration) ==
    LET trigger == Triggers(d, hasSample, key)
        skipped == Stretched(d, duration) - duration
        d1 == [d EXCEPT !.videoAborted = @ \/ trigger,
                        !.skipping = IF trigger /\ hasSample /\ skipped > 0
                                     THEN Append(@, skipped)
                                     ELSE @]
        d2 == ReadVideoOf(d1, hasSample, key,
                          IF trigger /\ hasSample THEN -Stretched(d, duration) ELSE duration)
    IN  [d2 EXCEPT !.aborted = @ \/ (d2.videoAborted /\ ~Truthy(d.length))]

\* reader.onVideo of an unreliable video download
OnVideo(d, hasSample, key, duration) ==
    LET trigger == Triggers(d, hasSample, key)
        skipped == Stretched(d, duration) - duration
        d1 == [d EXCEPT !.videoAborted = @ \/ trigger,
                        !.skipping = IF trigger /\ hasSample /\ skipped > 0
                                     THEN Append(@, skipped)
                                     ELSE @]
        d2 == ReadVideoOf(d1, hasSample, key,
                          IF trigger /\ hasSample THEN -Stretched(d, duration) ELSE duration)
    IN  [d2 EXCEPT !.onVideo = IF d2.videoAborted THEN "empty" ELSE @,
                   !.aborted = @ \/ (d2.videoAborted /\ ~Truthy(d.length))]

\* a chunk of the body is read and holds one video packet: the reader is made on the
\* first one, and the packet goes to its onVideo
Chunk(d, hasSample, key, duration) ==
    LET d1 == [d EXCEPT !.chunks = @ + 1,
                        !.packet = [kind |-> "video", sample |-> hasSample, key |-> key,
                                    duration |-> duration],
                        !.onVideo = IF @ # "none" THEN @
                                    ELSE IF d.reliable THEN "plain" ELSE "policy"]
    IN  IF d1.onVideo = "empty" THEN d1
        ELSE IF d1.onVideo = "plain" THEN ReadVideoOf(d1, hasSample, key, duration)
        ELSE OnVideo(d1, hasSample, key, duration)

\* the end of _downloadSequence once controller.signal.aborted ends its loops
Exit(d) ==
    IF d.pc = "body" /\ d.chunks > 0 THEN Return(d, 206, FALSE) ELSE Return(d, 408, FALSE)

\* _play reads the response: "if (response.error) return this.close({...})"
ReadResponse(d) ==
    [d EXCEPT !.pc = "handled",
              !.closeError = IF ~d.error THEN "none"
                             ELSE IF d.status = 400 THEN "Malformed payload"
                             ELSE "Request error"]

\* _play downloads a video sequence, whatever the Source and the playing object were
DownloadStarts ==
    /\ download.pc = "idle"
    /\ \E isReliable \in BOOLEAN, isBuffering \in BOOLEAN, low \in BOOLEAN, down \in BOOLEAN,
          cmcd \in BOOLEAN, query \in BOOLEAN, window \in {0, MaxWindow},
          audio \in {0, MaxWindow + 2}, amount \in {0, 1} :
          download' = DownloadSequence([download EXCEPT !.reliable = isReliable,
                                                        !.buffering = isBuffering,
                                                        !.low = low,
                                                        !.down = down,
                                                        !.cmcd = cmcd,
                                                        !.query = query,
                                                        !.maxSequenceDuration = window,
                                                        !.audioTime = audio,
                                                        !.bufferAmount = amount])
    /\ UNCHANGED notDownloadVars

\* the server answers the HEAD request
HeadAnswered ==
    /\ download.pc = "head"
    /\ ~download.aborted
    /\ \E ok \in BOOLEAN, first \in {Undefined, 0, FirstFrameLength}, window \in {0, MaxWindow} :
          download' = HeadResponse(download, ok, first, window)
    /\ UNCHANGED notDownloadVars

\* the server answers the GET request
GetAnswered ==
    /\ download.pc = "get"
    /\ ~download.aborted
    /\ \E ok \in BOOLEAN, window \in {0, MaxWindow} :
          download' = GetResponse(download, ok, window)
    /\ UNCHANGED notDownloadVars

\* the fetch throws: after Util.sleep(500) the same request is sent again
FetchThrows ==
    /\ download.pc \in {"head", "get"}
    /\ ~download.aborted
    /\ Len(download.requests) < MaxRequests
    /\ download' = [download EXCEPT
                       !.requests = Append(@, download.requests[Len(download.requests)])]
    /\ UNCHANGED notDownloadVars

\* body.read() gives a chunk with a video packet: a sample that ends within the
\* sequence (as long as the video time follows the samples read), or a track alone
BodyChunk ==
    /\ download.pc = "body"
    /\ ~download.aborted
    /\ download.chunks < MaxChunks
    /\ \E hasSample \in BOOLEAN, key \in BOOLEAN, duration \in 1..2 :
          /\ ~hasSample => (~key /\ duration = 1)
          /\ ~download.videoAborted
                => download.videoTime - download.startVideoTime + duration <= MaxWindow
          /\ download' = Chunk(download, hasSample, key, duration)
    /\ UNCHANGED notDownloadVars

\* body.read() gives the end of the body: "All downloaded!"
BodyDone ==
    /\ download.pc = "body"
    /\ ~download.aborted
    /\ download' = Return(download, 200, FALSE)
    /\ UNCHANGED notDownloadVars

\* the buffer of the playing object empties or fills while the GET request is served
BufferAmountChanges ==
    /\ download.pc \in {"get", "body"}
    /\ download' = [download EXCEPT !.bufferAmount = 1 - @]
    /\ UNCHANGED notDownloadVars

\* this._videoController.abort() by a listener of _play
ControllerAborts ==
    /\ download.pc \in {"head", "get", "body"}
    /\ ~download.aborted
    /\ download' = [download EXCEPT !.aborted = TRUE]
    /\ UNCHANGED notDownloadVars

\* the loops of _downloadSequence end on the abort of the controller
DownloadExits ==
    /\ download.pc \in {"head", "get", "body"}
    /\ download.aborted
    /\ download' = Exit(download)
    /\ UNCHANGED notDownloadVars

\* Promise.all(promises) settles and _play reads the response
ResponseRead ==
    /\ download.pc = "returned"
    /\ download' = ReadResponse(download)
    /\ UNCHANGED notDownloadVars

(***************************************************************************)
(* CMAFWriter: the boxes of an initialization segment and of a fragment    *)
(***************************************************************************)
\* new BinaryWriter(): the bytes written so far and the boxes begun, each with its
\* type, the offset of its size field, the size written there and the offset where
\* the writes of the box end
NewWriter == [size |-> 0, boxes |-> <<>>]

\* writer.write(bytes), write8, write16, write32, write64, writeHex: n bytes
WriteBytes(w, n) == [w EXCEPT !.size = @ + n]

\* the 4 bytes of the size of a box (written, or skipped by "writer.next(4)" when the
\* size is Undefined) and the 4 bytes of its type
Box(w, type, declared) ==
    [size |-> w.size + 8,
     boxes |-> Append(w.boxes, [type |-> type, at |-> w.size, declared |-> declared,
                                end |-> Undefined])]

\* the writes of a box are over
EndBox(w, type) ==
    [w EXCEPT !.boxes = [i \in DOMAIN w.boxes |->
                            IF w.boxes[i].type = type
                            THEN [w.boxes[i] EXCEPT !.end = w.size]
                            ELSE w.boxes[i]]]

\* "writer.view.setUint32(size, writer.size() - size)" at the end of a box
PatchBox(w, type) ==
    [w EXCEPT !.boxes = [i \in DOMAIN w.boxes |->
                            IF w.boxes[i].type = type
                            THEN [w.boxes[i] EXCEPT !.declared = w.size - w.boxes[i].at,
                                                    !.end = w.size]
                            ELSE w.boxes[i]]]

\* a box written with its size whose content is n bytes
FixedBox(w, type, declared, n) == EndBox(WriteBytes(Box(w, type, declared), n), type)

\* no ContentProtection given
NoProtection == [scheme |-> "none", iv |-> 0, kid |-> 0, pssh |-> 0]

\* the ContentProtection given to init: the scheme, the lengths of the hexadecimal
\* strings iv and kid, and the pssh boxes
Protections ==
    {NoProtection}
    \cup [scheme : {"cenc", "cbcs"}, iv : {0, 16, 32}, kid : {16, 32}, pssh : 0..MaxPssh]

\* the ContentProtection given to write, which reads its scheme and its iv
SampleProtections ==
    {c \in Protections : c.kid = (IF c.scheme = "none" THEN 0 ELSE 32) /\ c.pssh = 0}

\* the esds box of init: "let size = 37 + (track.config?.byteLength ?? -2)" and the
\* writes up to the SL config descriptor
Esds(w, track) ==
    LET size == 37 + (IF track.config = Undefined THEN -2 ELSE track.config)
        w1 == WriteBytes(Box(w, "esds", size), 4 + 1)
        w2 == WriteBytes(w1, 1 + 4 + 1 + 1 + 12)
        w3 == IF track.config # Undefined THEN WriteBytes(w2, 1 + 1 + track.config) ELSE w2
    IN  EndBox(WriteBytes(w3, 3), "esds")

\* CMAFWriter._writeSinf
WriteSinf(w, isVideo, track, cp) ==
    IF ~track.protected \/ cp.scheme = "none"
    THEN w
    ELSE LET w1 == Box(w, "sinf", Undefined)
             w2 == FixedBox(w1, "frma", 12, 4)
             w3 == FixedBox(w2, "schm", 20, 4 + 4 + 4)
             w4 == Box(w3, "schi", Undefined)
             w5 == WriteBytes(Box(w4, "tenc", Undefined), 1 + 4 + 1 + 1 + 1)
             w6 == WriteBytes(w5, 16)
             w7 == IF cp.scheme = "cbcs" THEN WriteBytes(w6, 1 + 16) ELSE w6
         IN  PatchBox(PatchBox(PatchBox(w7, "tenc"), "schi"), "sinf")

\* the sample entry of init (avc1 or encv with avcC, mp4a or enca with esds) and its
\* sinf box
SampleEntry(w, isVideo, track, cp) ==
    LET w1 == Box(w, "entry", Undefined)
        w2 == IF isVideo
              THEN LET v == WriteBytes(w1, 24 + 2 + 2 + 14 + 32 + 4)
                   IN  IF track.config # Undefined
                       THEN PatchBox(WriteBytes(Box(v, "avcC", Undefined), track.config), "avcC")
                       ELSE v
              ELSE Esds(WriteBytes(w1, 16 + 2 + 6 + 2 + 2), track)
    IN  PatchBox(WriteSinf(w2, isVideo, track, cp), "entry")

\* CMAFWriter.init(track, contentProtection) of a track whose codec is supported: the
\* writer before "this.onWrite(writer.data())"
InitSegment(isVideo, track, cp) ==
    LET w1 == FixedBox(NewWriter, "ftyp", 32, 24)
        w2 == FixedBox(Box(w1, "moov", Undefined), "mvhd", 108, 96 + 4)
        w3 == FixedBox(Box(w2, "trak", Undefined), "tkhd", 92, 12 + 4 + 60 + 2 + 2 + 2 + 2)
        w4 == FixedBox(Box(w3, "mdia", Undefined), "mdhd", 32, 12 + 4 + 4 + 2 + 2)
        w5 == FixedBox(w4, "hdlr", 33, 8 + 4 + 13)
        w6 == Box(w5, "minf", Undefined)
        w7 == IF isVideo THEN FixedBox(w6, "vmhd", 20, 12) ELSE FixedBox(w6, "smhd", 16, 8)
        w8 == WriteBytes(Box(Box(w7, "dinf", 36), "dref", 28), 8)
        w9 == EndBox(EndBox(FixedBox(w8, "url ", 12, 4), "dref"), "dinf")
        w10 == WriteBytes(Box(Box(w9, "stbl", Undefined), "stsd", Undefined), 8)
        w11 == PatchBox(SampleEntry(w10, isVideo, track, cp), "stsd")
        w12 == FixedBox(FixedBox(w11, "stts", 16, 8), "stsc", 16, 8)
        w13 == FixedBox(FixedBox(w12, "stsz", 20, 12), "stco", 16, 8)
        w14 == PatchBox(PatchBox(PatchBox(PatchBox(w13, "stbl"), "minf"), "mdia"), "trak")
        w15 == EndBox(FixedBox(Box(w14, "mvex", 8 + 32), "trex", 32, 4 + 4 + 16), "mvex")
        w16 == WriteBytes(w15, cp.pssh * PsshLength)
    IN  PatchBox(w16, "moov")

\* a senc box whose size forgets the subsamples
SizeSencAlone(cp, sample) == (IF cp.scheme # "cbcs" /\ cp.iv = 32 THEN 16 ELSE 0) + 16

\* sizeSenc of write
SizeSenc(cp, sample) ==
    (IF cp.scheme # "cbcs" /\ cp.iv = 32 THEN 16 ELSE 0)
    + 16 + (IF sample.subSamples # 0 THEN 2 + sample.subSamples * 6 ELSE 0)

\* "this._isVideo || contentProtection.scheme !== ProtectionScheme.CBCS"
WithSaiz(isVideo, cp) == cp.scheme # "none" /\ (isVideo \/ cp.scheme # "cbcs")

\* the sizes that write computes before it writes
Sizes(isVideo, sample, cp) ==
    LET sizeTrun == 36
        sizeSenc == IF cp.scheme # "none" THEN SizeSenc(cp, sample) ELSE 0
        sizeSaiz == IF WithSaiz(isVideo, cp) THEN 18 ELSE 0
        sizeSaio == IF WithSaiz(isVideo, cp) THEN 20 ELSE 0
        sizeTraf == 8 + 20 + 20 + sizeTrun + sizeSenc + sizeSaiz + sizeSaio
    IN  [trun |-> sizeTrun, senc |-> sizeSenc, saiz |-> sizeSaiz, saio |-> sizeSaio,
         traf |-> sizeTraf, moof |-> 8 + 16 + sizeTraf]

\* CMAFWriter.write(sample, contentProtection): the bytes given to onWrite, the data
\* offset written in trun and the offset of the first byte of sample.data
Fragment(isVideo, sample, cp) ==
    LET z == Sizes(isVideo, sample, cp)
        w1 == FixedBox(Box(NewWriter, "moof", z.moof), "mfhd", 16, 4 + 4)
        w2 == FixedBox(Box(w1, "traf", z.traf), "tfhd", 20, 4 + 4 + 4)
        w3 == FixedBox(w2, "tfdt", 20, 4 + 8)
        w4 == FixedBox(w3, "trun", z.trun, 4 + 4 + 4 + 4 + 4 + 4 + 4)
        w5 == IF WithSaiz(isVideo, cp)
              THEN FixedBox(FixedBox(w4, "saiz", z.saiz, 4 + 1 + 4 + 1), "saio", z.saio,
                            4 + 4 + 4)
              ELSE w4
        w6 == IF cp.scheme = "none" THEN w5
              ELSE LET c1 == WriteBytes(Box(w5, "senc", z.senc), 4 + 4)
                       c2 == IF cp.scheme # "cbcs" /\ cp.iv = 32 THEN WriteBytes(c1, 16) ELSE c1
                       c3 == IF sample.subSamples # 0
                             THEN WriteBytes(c2, 2 + sample.subSamples * (2 + 4))
                             ELSE c2
                   IN  EndBox(c3, "senc")
        w7 == Box(EndBox(EndBox(w6, "traf"), "moof"), "mdat", 8 + sample.size)
    IN  [boxes |-> EndBox(WriteBytes(w7, sample.size), "mdat").boxes,
         dataOffset |-> z.moof + 8,
         dataAt |-> w7.size]

\* new CMAFWriter()
NewCMAFWriter ==
    [isVideo |-> FALSE, sequence |-> 0, inits |-> 0, error |-> FALSE, init |-> <<>>,
     fragment |-> [boxes |-> <<>>, dataOffset |-> 0, dataAt |-> 0]]

\* writer.init(track, contentProtection); a track that is neither audio nor video, or
\* whose codec is not supported, returns an error before anything changes
CMAFWriterInit ==
    /\ cmaf.inits < MaxInits
    /\ \E isVideo \in BOOLEAN, supported \in BOOLEAN, protected \in BOOLEAN,
          config \in {Undefined} \cup (0..MaxConfig), cp \in Protections :
          cmaf' = IF ~supported
                  THEN [cmaf EXCEPT !.inits = @ + 1, !.error = TRUE]
                  ELSE [cmaf EXCEPT !.inits = @ + 1,
                                    !.error = FALSE,
                                    !.isVideo = isVideo,
                                    !.init = InitSegment(isVideo,
                                                         [protected |-> protected,
                                                          config |-> config],
                                                         cp).boxes]
    /\ UNCHANGED notCmafVars

\* writer.write(sample, contentProtection)
CMAFWriterWrite ==
    /\ cmaf.sequence < MaxFragments
    /\ \E subSamples \in 0..MaxSubSamples, size \in 0..MaxData, cp \in SampleProtections :
          cmaf' = [cmaf EXCEPT !.sequence = @ + 1,
                               !.fragment = Fragment(cmaf.isVideo,
                                                     [subSamples |-> subSamples, size |-> size],
                                                     cp)]
    /\ UNCHANGED notCmafVars

(***************************************************************************)
(* Player.start and Player.stop: the objects of a session and the          *)
(* callbacks they leave behind. A session is named by its number, 0 for    *)
(* none; an object is named by the session that made it.                   *)
(***************************************************************************)
NoStop == [session |-> 0, by |-> 0, cause |-> "none"]

NoKeys == [engine |-> 0, by |-> 0]

\* new Player(video): started counts the calls of start; timeout tells _timeout is
\* set and timer is the session whose setTimeout is pending; listeners are the
\* sessions whose video listeners are registered; opening and closing are the
\* sessions whose MediaSource has onsourceopen and onsourceclose; source, playback and
\* drmEngine are _source, _playback and _drmEngine; wired are the Sources and
\* MediaPlaybacks whose onClose is Player.stop and that are not closed, and engines the
\* DRMEngines whose onError is Player.stop; promises are the sessions whose
\* DRMEngine.start is pending
NewSessions ==
    [started |-> 0, timeout |-> FALSE, timer |-> 0, listeners |-> {}, mediaSource |-> 0,
     opening |-> {}, closing |-> {}, source |-> 0, playback |-> 0, drmEngine |-> 0,
     waitingInit |-> FALSE, wiredSources |-> {}, openSources |-> {}, wiredPlaybacks |-> {},
     engines |-> {}, promises |-> {}, stopped |-> NoStop, keysReady |-> NoKeys]

\* the session that runs
Session(p) == IF p.timeout THEN p.started ELSE 0

\* the start of a handler: what the last one did is forgotten
Handler(p) == [p EXCEPT !.stopped = NoStop, !.keysReady = NoKeys]

\* Player.stop(error), called by the user (0) or by a callback of a session
PlayerStopBy(p, by, cause) ==
    IF ~p.timeout
    THEN p
    ELSE [p EXCEPT !.timeout = FALSE,
                   !.timer = 0,
                   !.listeners = {},
                   !.opening = IF p.mediaSource # 0 THEN @ \ {p.mediaSource} ELSE @,
                   !.closing = IF p.mediaSource # 0 THEN @ \ {p.mediaSource} ELSE @,
                   !.openSources = IF p.mediaSource # 0 THEN @ \ {p.source} ELSE @,
                   !.wiredSources = IF p.mediaSource # 0 THEN @ \ {p.source} ELSE @,
                   !.wiredPlaybacks = IF p.mediaSource # 0 THEN @ \ {p.playback} ELSE @,
                   !.engines = @ \ {p.drmEngine},
                   !.drmEngine = 0,
                   !.source = 0,
                   !.mediaSource = 0,
                   !.playback = 0,
                   !.stopped = [session |-> p.started, by |-> by, cause |-> cause]]

\* Player.start(params): stop(), the start timeout, the MediaSource with its
\* handlers if the browser has one, the MediaPlayback and the video listeners
PlayerStartOf(p, hasSource) ==
    LET q == PlayerStopBy(p, 0, "start")
        n == p.started + 1
        r == [q EXCEPT !.started = n, !.timeout = TRUE, !.timer = n]
    IN  IF ~hasSource
        THEN PlayerStopBy(r, 0, "Update the browser")
        ELSE [r EXCEPT !.mediaSource = n,
                       !.opening = @ \cup {n},
                       !.closing = @ \cup {n},
                       !.playback = n,
                       !.wiredPlaybacks = @ \cup {n},
                       !.listeners = @ \cup {n}]

\* _mediaSource.onsourceopen of the MediaSource of a session
OnSourceOpenOf(p, n) ==
    IF ~p.timeout
    THEN p
    ELSE [p EXCEPT !.opening = IF p.mediaSource # 0 THEN @ \ {p.mediaSource} ELSE @,
                   !.timer = p.started,
                   !.source = n,
                   !.openSources = @ \cup {n},
                   !.wiredSources = @ \cup {n}]

\* _source.onMetadata(metadata): the DRMEngine is started for a protected stream when
\* the parameters hold a contentProtection
OnMetadataOf(p, n, protected) ==
    IF p.drmEngine = 0 /\ protected
    THEN [p EXCEPT !.waitingInit = TRUE,
                   !.drmEngine = n,
                   !.engines = @ \cup {n},
                   !.promises = @ \cup {n}]
    ELSE p

\* ".then(() => { if (this._drmEngine) { this._waitingInit = false;
\* this.onMediaKeysReady(this._drmEngine) } })" of the promise of a session
OnDrmStarted(p, n) ==
    IF p.drmEngine # 0
    THEN [p EXCEPT !.promises = @ \ {n},
                   !.waitingInit = FALSE,
                   !.keysReady = [engine |-> p.drmEngine, by |-> n]]
    ELSE [p EXCEPT !.promises = @ \ {n}]

\* ".catch(error => { this.stop(error) })" of the promise of a session
OnDrmFailed(p, n) ==
    PlayerStopBy([p EXCEPT !.promises = @ \ {n}], n, "DRMEngine.start")

\* player.start(params)
SessionStart ==
    /\ sessions.started < MaxSessions
    /\ \E hasSource \in BOOLEAN : sessions' = PlayerStartOf(Handler(sessions), hasSource)
    /\ UNCHANGED notSessionVars

\* player.stop()
SessionStop ==
    /\ sessions' = PlayerStopBy(Handler(sessions), 0, "stop")
    /\ UNCHANGED notSessionVars

\* the timer of a session fires: Start, Connection or Data timeout
SessionTimeout ==
    /\ sessions.timer # 0
    /\ sessions' = PlayerStopBy(Handler(sessions), sessions.timer, "timeout")
    /\ UNCHANGED notSessionVars

\* 'sourceopen' of the MediaSource of a session
SessionSourceOpen ==
    /\ \E n \in sessions.opening : sessions' = OnSourceOpenOf(Handler(sessions), n)
    /\ UNCHANGED notSessionVars

\* 'sourceclose' of the MediaSource of a session
SessionSourceClose ==
    /\ \E n \in sessions.closing :
          sessions' = PlayerStopBy(Handler(sessions), n, "MediaSource closed")
    /\ UNCHANGED notSessionVars

\* the Source of a session reads a Metadata
SessionMetadata ==
    /\ \E n \in sessions.wiredSources, protected \in BOOLEAN :
          sessions' = OnMetadataOf(Handler(sessions), n, protected)
    /\ UNCHANGED notSessionVars

\* the Source of a session closes on its own
SessionSourceCloses ==
    /\ \E n \in sessions.wiredSources :
          sessions' = PlayerStopBy([Handler(sessions) EXCEPT !.openSources = @ \ {n},
                                                             !.wiredSources = @ \ {n}],
                                   n, "Source.close")
    /\ UNCHANGED notSessionVars

\* the MediaPlayback of a session closes on its own
SessionPlaybackCloses ==
    /\ \E n \in sessions.wiredPlaybacks :
          sessions' = PlayerStopBy([Handler(sessions) EXCEPT !.wiredPlaybacks = @ \ {n}],
                                   n, "MediaPlayback.close")
    /\ UNCHANGED notSessionVars

\* a video event of which a listener stops the Player ('waiting' arms the data
\* timeout, which is the timer of the session)
SessionVideoEvent ==
    /\ \E n \in sessions.listeners :
          /\ sessions.timeout
          /\ sessions' = [Handler(sessions) EXCEPT !.timer = n]
    /\ UNCHANGED notSessionVars

\* the DRMEngine of a session reports an error
SessionDrmError ==
    /\ \E n \in sessions.engines :
          sessions' = PlayerStopBy(Handler(sessions), n, "DRMEngine.onError")
    /\ UNCHANGED notSessionVars

\* DRMEngine.start of a session resolves
SessionDrmStarted ==
    /\ \E n \in sessions.promises : sessions' = OnDrmStarted(Handler(sessions), n)
    /\ UNCHANGED notSessionVars

\* DRMEngine.start of a session rejects, on a failure or after START_TIMEOUT
SessionDrmFailed ==
    /\ \E n \in sessions.promises : sessions' = OnDrmFailed(Handler(sessions), n)
    /\ UNCHANGED notSessionVars

InitUnits ==
    /\ sessions = NewSessions
    /\ cmaf = NewCMAFWriter
    /\ download = NewDownload
    /\ ingestion = NewIngestion
    /\ ingestCall = NoIngest
    /\ retry = NewAdaptiveRetry
    /\ now = TimeStep
    /\ retryCall = NoRetryCall
    /\ mediaPlayback = NewMediaPlayback
    /\ fixCall = NoFix
    /\ manifest = <<>>
    /\ fixes = 0
    /\ metadata = NoMetadata
    /\ mediaTracks = <<>>

Init == InitPlayer /\ InitSource /\ NewReader(FALSE) /\ InitUnits

(***************************************************************************)
(* Spec: the session of the Player (start, stop, timeout slot) while the   *)
(* element waits for data.                                                 *)
(***************************************************************************)
Next ==
    \/ PlayerStart
    \/ PlayerStop
    \/ PausedSet
    \/ ReliableSet
    \/ MediaSourceOpen
    \/ MediaSourceClose
    \/ TimerFire
    \/ Elapse
    \/ SourceTrackChange
    \/ SourceReadChunk
    \/ SourceClosed
    \/ PlaybackClosed
    \/ BufferUpdate
    \/ BufferOverflow
    \/ VideoWaiting
    \/ VideoCanPlay
    \/ VideoPlaying

Spec == Init /\ [][Next]_vars

(***************************************************************************)
(* SpecBuffer: the buffer-state machine of a running Player.               *)
(***************************************************************************)
NextBuffer ==
    \/ BufferLimitLowSet
    \/ BufferLimitHighSet
    \/ PlayerStartDefault
    \/ PlayerStop
    \/ MediaSourceOpen
    \/ SourceTrackChange
    \/ BufferUpdate
    \/ BufferEvict
    \/ VideoTime
    \/ PlaySettled
    \/ VideoWaiting
    \/ VideoCanPlay
    \/ VideoSeeked
    \/ VideoTimeUpdate

SpecBuffer == Init /\ [][NextBuffer]_vars

(***************************************************************************)
(* SpecGoLive: the playhead of a running Player, reliable or not, whose    *)
(* buffer grows and is evicted.                                            *)
(***************************************************************************)
NextGoLive ==
    \/ BufferLimitLowSet
    \/ BufferLimitHighSet
    \/ PlayerStartDefault
    \/ MediaSourceOpen
    \/ SourceTrackChange
    \/ ReliableSet
    \/ BufferUpdate
    \/ BufferEvict
    \/ VideoTime
    \/ VideoSeeked

SpecGoLive == Init /\ [][NextGoLive]_vars

(***************************************************************************)
(* SpecLimits: assignments of the buffer limits.                           *)
(***************************************************************************)
NextLimits ==
    \/ BufferLimitLowAssign
    \/ BufferLimitHighAssign

SpecLimits == Init /\ [][NextLimits]_vars

(***************************************************************************)
(* SpecSource: one Source ingesting samples.                               *)
(***************************************************************************)
NextSource ==
    \/ ReadMetadata
    \/ ReadAudio
    \/ ReadVideo
    \/ ReadData

\* the Source of a Player on a host with MediaSource
InitOneSource == Init /\ hasMediaSource /\ ~hasManaged

SpecSource == InitOneSource /\ [][NextSource]_vars

(***************************************************************************)
(* SpecRepair: the samples of one audio and one video track, with holes    *)
(* and overlaps of any size.                                               *)
(***************************************************************************)
NextRepair ==
    \/ RepairAudio
    \/ RepairVideo

SpecRepair == InitOneSource /\ [][NextRepair]_vars

(***************************************************************************)
(* SpecSelect: the selection of the tracks of one Source.                  *)
(***************************************************************************)
NextSelect ==
    \/ SourceRun
    \/ ReadMetadata
    \/ SelectVideoTrack
    \/ SelectAudioTrack
    \/ TrackRequestFire
    \/ CloseSource

SpecSelect == InitOneSource /\ [][NextSelect]_vars

(***************************************************************************)
(* SpecReader: an RTSReader of either kind and the packets sent to it.     *)
(***************************************************************************)
NextReader == SendPacket \/ Deliver

InitAnyReader ==
    /\ InitPlayer /\ hasMediaSource /\ ~hasManaged
    /\ InitSource
    /\ \E size \in BOOLEAN : NewReader(size)
    /\ InitUnits

SpecReader == InitAnyReader /\ [][NextReader]_vars

(***************************************************************************)
(* SpecStream: an RTSReader with sizes on a stream of bytes that holds     *)
(* several packets, read in chunks of any length.                          *)
(***************************************************************************)
NextStream == StreamPacket \/ Deliver

InitStream ==
    /\ InitPlayer /\ hasMediaSource /\ ~hasManaged
    /\ InitSource
    /\ NewReader(TRUE)
    /\ InitUnits

SpecStream == InitStream /\ [][NextStream]_vars

(***************************************************************************)
(* SpecFramed: an RTSReader on a framed transport whose messages hold one  *)
(* packet each.                                                            *)
(***************************************************************************)
NextFramed == SendMessage \/ Deliver

SpecFramed == InitOneSource /\ [][NextFramed]_vars

(***************************************************************************)
(* SpecAdaptive: the rendition selection of one HTTPAdaptiveSource, with   *)
(* its playing object.                                                     *)
(***************************************************************************)
NextAdaptive ==
    \/ SourceRun
    \/ ManifestDone
    \/ ProbeDone
    \/ RequestDone
    \/ DownloadVideo
    \/ PlayingBufferState
    \/ PlayingStall

SpecAdaptive == InitOneSource /\ [][NextAdaptive]_vars

(***************************************************************************)
(* SpecPin: the video track of a running HTTPAdaptiveSource is pinned.     *)
(***************************************************************************)
NextPin ==
    \/ SourceRun
    \/ ManifestDone
    \/ RequestDone
    \/ PlayingBufferState
    \/ PinVideoTrack

SpecPin == InitOneSource /\ [][NextPin]_vars

(***************************************************************************)
(* SpecSkip: the sequences skipped by an unreliable HTTPAdaptiveSource     *)
(* while the wall clock advances.                                          *)
(***************************************************************************)
NextSkip ==
    \/ SourceRun
    \/ ManifestDone
    \/ ProbeDone
    \/ RequestDone
    \/ DownloadVideo
    \/ Tick
    \/ PlayingStall

SpecSkip == InitOneSource /\ [][NextSkip]_vars

(***************************************************************************)
(* SpecMetadata: the Metadata of the manifests received.                   *)
(***************************************************************************)
NextMetadata ==
    \/ ManifestTrack
    \/ MetadataFix

SpecMetadata == InitOneSource /\ [][NextMetadata]_vars

(***************************************************************************)
(* SpecFixAgain: the Metadata of the manifests received, fixed again.      *)
(***************************************************************************)
NextFixAgain ==
    \/ ManifestTrack
    \/ MetadataFix
    \/ MetadataFixAgain

SpecFixAgain == InitOneSource /\ [][NextFixAgain]_vars

(***************************************************************************)
(* SpecPlayback: a MediaPlayback, its tracks enabled, fed and closed.      *)
(***************************************************************************)
NextPlayback ==
    \/ AudioEnabledSet
    \/ VideoEnabledSet
    \/ AppendAudio
    \/ AppendVideo
    \/ SourceBufferAborted
    \/ PlayerClosesPlayback

SpecPlayback == InitOneSource /\ [][NextPlayback]_vars

(***************************************************************************)
(* SpecRetry: an AdaptiveRetry tried, failed and reset as time goes.       *)
(***************************************************************************)
NextRetry ==
    \/ AdaptiveRetryTry
    \/ AdaptiveRetryRaise
    \/ AdaptiveRetryReset
    \/ ClockTick

SpecRetry == InitOneSource /\ [][NextRetry]_vars

(***************************************************************************)
(* SpecFirstSamples: the samples and the tracks a Source is given from its *)
(* start on.                                                               *)
(***************************************************************************)
(***************************************************************************)
(* SpecDownload: one video sequence downloaded by _downloadSequence        *)
(***************************************************************************)
NextDownload ==
    \/ DownloadStarts
    \/ HeadAnswered
    \/ GetAnswered
    \/ FetchThrows
    \/ BodyChunk
    \/ BodyDone
    \/ BufferAmountChanges
    \/ ControllerAborts
    \/ DownloadExits
    \/ ResponseRead

SpecDownload == InitOneSource /\ [][NextDownload]_vars

(***************************************************************************)
(* SpecCMAF: a CMAFWriter initialized for a track and given samples        *)
(***************************************************************************)
NextCMAF == CMAFWriterInit \/ CMAFWriterWrite

SpecCMAF == InitOneSource /\ [][NextCMAF]_vars

(***************************************************************************)
(* SpecSessions: a Player started and stopped several times, and the       *)
(* callbacks of every session it has had                                   *)
(***************************************************************************)
NextSessions ==
    \/ SessionStart
    \/ SessionStop
    \/ SessionTimeout
    \/ SessionSourceOpen
    \/ SessionSourceClose
    \/ SessionMetadata
    \/ SessionSourceCloses
    \/ SessionPlaybackCloses
    \/ SessionVideoEvent
    \/ SessionDrmError
    \/ SessionDrmStarted
    \/ SessionDrmFailed

SpecSessions == InitOneSource /\ [][NextSessions]_vars

NextFirstSamples ==
    \/ ReadAudioSample
    \/ ReadVideoSample
    \/ IngestionCloses

SpecFirstSamples == InitOneSource /\ [][NextFirstSamples]_vars

(***************************************************************************)
(* SpecRounds: the sequences requested round after round by an             *)
(* HTTPAdaptiveSource whose reliability is changed while it runs.          *)
(***************************************************************************)
NextRounds ==
    \/ SourceRun
    \/ ManifestDone
    \/ ProbeDone
    \/ RequestDone
    \/ Tick
    \/ PlayingStall
    \/ PlayingBufferState
    \/ SourceReliableSet

SpecRounds == InitOneSource /\ [][NextRounds]_vars

(***************************************************************************)
(* SpecClose: an HTTPAdaptiveSource is closed, or its playing object       *)
(* aborts its signal.                                                      *)
(***************************************************************************)
NextClose ==
    \/ SourceRun
    \/ ManifestDone
    \/ ManifestFailed
    \/ ProbeDone
    \/ RequestDone
    \/ RequestFailed
    \/ PlayingBufferState
    \/ PlayingStall
    \/ PlayingAbort
    \/ CloseAdaptive

SpecClose == InitOneSource /\ [][NextClose]_vars

(***************************************************************************)
(* Properties                                                              *)
(***************************************************************************)
HasEvent(name) == \E i \in DOMAIN events : events[i].e = name

\* the playback rate (percent) that Player.onBufferState gives to a buffer state
RateOf(state) == CASE state = "HIGH" -> 108 [] state = "LOW" -> 92 [] OTHER -> 100

\* C1: every session armed by Player.start ends with exactly one onStop, whatever
\* ends it: the number of sessions armed minus the number of onStop calls is 1
\* while the player runs and 0 while it does not, so that no stop (re-entered during
\* the teardown, or called on a player that does not run) emits a second onStop.
OnStopOncePerSession == openSessions = (IF timeout # NoTimeout THEN 1 ELSE 0)

\* a session ended by the close of its Source on an error: Source.close calls
\* Player.stop, which calls Source.close again
SessionEndedBySourceError ==
    /\ HasEvent("onStop")
    /\ stopError = "Request error"
    /\ openSessions = 0
    /\ timeout = NoTimeout

\* C2: after a handler that has evaluated the buffer state (time-update or playback
\* progress, the first buffering being over), a bufferAmount above bufferLimitHigh
\* goes with the state HIGH and a bufferAmount not above bufferLimitLow with LOW.
EvaluationFollowsLimits ==
    HasEvent("evaluate") =>
        /\ (BufferAmount(Cur) > bufferLimitHigh => bufferState = "HIGH")
        /\ (BufferAmount(Cur) <= bufferLimitLow => bufferState = "LOW")

EvaluatedToHigh ==
    /\ HasEvent("evaluate")
    /\ BufferAmount(Cur) > bufferLimitHigh
    /\ bufferState = "HIGH"
    /\ \E i \in DOMAIN events : events[i].e = "BufferState" /\ events[i].new = "HIGH"

\* C3 as stated: whatever sets the state, LOW becomes OK only when bufferAmount is
\* above bufferLimitMiddle and HIGH becomes OK only when it is below.
HysteresisEverywhere ==
    \A i \in DOMAIN events :
        (events[i].e = "BufferState" /\ events[i].new = "OK") =>
            /\ (events[i].old = "LOW" => events[i].ba > bufferLimitMiddle)
            /\ (events[i].old = "HIGH" => events[i].ba < bufferLimitMiddle)

\* C3, amended: the evaluation of _onTimeUpdate moves LOW to OK only when
\* bufferAmount is above bufferLimitMiddle and HIGH to OK only when it is below;
\* the end of a buffering in _onPlaybackProgress sets OK from any state, with a
\* bufferAmount that has reached bufferLimitMiddle; no other operation sets OK.
HysteresisOfEvaluation ==
    \A i \in DOMAIN events :
        (events[i].e = "BufferState" /\ events[i].new = "OK") =>
            IF i > 1 /\ events[i - 1].e = "bufferingEnd"
            THEN events[i].ba >= bufferLimitMiddle
            ELSE /\ i > 1 /\ events[i - 1].e = "evaluate"
                 /\ (events[i].old = "LOW" => events[i].ba > bufferLimitMiddle)
                 /\ (events[i].old = "HIGH" => events[i].ba < bufferLimitMiddle)
                 /\ events[i].old \in {"LOW", "HIGH"}

\* the end of a buffering that followed a stall moves LOW to OK with a bufferAmount
\* equal to bufferLimitMiddle
LowToOkAtMiddle ==
    \E i \in DOMAIN events :
        /\ i > 1 /\ events[i - 1].e = "bufferingEnd"
        /\ events[i].e = "BufferState" /\ events[i].old = "LOW" /\ events[i].new = "OK"
        /\ events[i].ba = bufferLimitMiddle
        /\ bufferLimitMiddle > bufferLimitLow

BufferingEnded == HasEvent("bufferingEnd")

\* C4 as stated: from Player.start until the first buffering ends the buffer state
\* stays NONE: a running player that is in its first buffering leaves NONE only
\* in the step that ends this buffering.
FirstBufferingKeepsNone ==
    [][(timeout # NoTimeout /\ buffering /\ bufferState = "NONE" /\ bufferState' # "NONE")
          => BufferingEnded']_vars

LimitsOrdered ==
    /\ bufferLimitLow <= bufferLimitMiddle
    /\ bufferLimitMiddle <= bufferLimitHigh
    /\ bufferLimitMiddle = bufferLimitLow + RoundHalf(bufferLimitHigh - bufferLimitLow)

\* both limits assigned, at an odd distance: the half is rounded up
LimitsAssignedOddDistance ==
    /\ bufferLimitLow = 2
    /\ bufferLimitHigh = 5
    /\ bufferLimitMiddle = 4

WaitingHandled == HasEvent("waiting")

\* the state at the return of onWaiting when it has handled a stall: BufferState
\* notification (when the state was not LOW yet), then pause, then onStall
StallHandled ==
    LET n == Len(events)
    IN  /\ n \in {3, 4}
        /\ events[n - 1].e = "onStall"
        /\ events[n - 2].e = "pause"
        /\ n = 4 => (events[1].e = "BufferState" /\ events[1].new = "LOW")
        /\ bufferState = "LOW"
        /\ buffering
        /\ videoPaused
        /\ \E t \in timers :
              t.id = timeout.id /\ t.name = "Data timeout" /\ t.left = timeout.value

TimeoutSlot ==
    /\ Cardinality(timers) <= 1
    /\ \A t \in timers :
          /\ timeout # NoTimeout
          /\ t.id = timeout.id
          /\ t.name = armed
          /\ t.dur = timeout.value
    /\ timeout # NoTimeout => timeout.value = IdleDuration(idleGiven)

StoppedOnTimeout == HasEvent("onStop") /\ stopError \in TimeoutNames

TimeoutCancelled == HasEvent("canplay") \/ HasEvent("playing")

\* C8: a session has one timeout slot: at most one timeout is pending, it is the
\* one armed last and lasts the idle duration given to start; start arms the Start
\* timeout, the opening of the media source the Connection timeout and a stall the
\* Data timeout; a session stopped by a timeout stops with the name of the timeout
\* armed last; 'canplay' and 'playing' leave no timeout pending.
SingleTimeoutSlot ==
    /\ []TimeoutSlot
    /\ [][StoppedOnTimeout' => stopError' = armed]_vars
    /\ [][TimeoutCancelled' => timers' = {}]_vars
    /\ [][(armed' # armed /\ armed' # NoError) =>
             \/ armed' = "Start timeout" /\ HasEvent("start")'
             \/ armed' = "Connection timeout" /\ mediaSource = "closed" /\ mediaSource' = "open"
             \/ armed' = "Data timeout" /\ HasEvent("onStall")']_vars

\* a session stopped by the Data timeout, armed after the Start and Connection ones
SessionEndedByDataTimeout ==
    /\ HasEvent("onStop")
    /\ stopError = "Data timeout"
    /\ timeout = NoTimeout
    /\ timers = {}

ChunkRead == HasEvent("chunk")

\* C9 as stated: the read of a received chunk restarts the pending timeout of the
\* Player.
ChunkRestartsTimeout ==
    [][ChunkRead' => \A t \in timers' : t.left = t.dur]_vars

\* C10: the end times of the Source (audioTime, videoTime, dataTime) never
\* decrease whatever samples are ingested, and a sample is handed over at a time
\* that is not before the end time its kind had reached.
SourceTimesMonotonic ==
    [][/\ audioTime' >= audioTime
       /\ videoTime' >= videoTime
       /\ dataTime' >= dataTime
       /\ lastSample'.kind = "audio" => (lastSample'.time >= audioTime /\ lastSample'.time <= audioTime')
       /\ lastSample'.kind = "video" => (lastSample'.time >= videoTime /\ lastSample'.time <= videoTime')
       /\ lastSample'.kind = "data" => (lastSample'.time >= dataTime /\ lastSample'.time = dataTime')
      ]_vars

\* a video sample read before the end of the previous one has been moved to it
OverlappingVideoRepaired ==
    /\ lastSample.kind = "video"
    /\ lastSample.repair = "overlap"
    /\ lastSample.time > 0
    /\ videoTime > lastSample.time

\* C11 as stated: with a Metadata attached, after every ingested sample
\* Metadata.liveTime is at least the largest end time (sample.time +
\* sample.duration) the Source has observed, which is Source.currentTime.
LiveTimeCoversSamples ==
    (hasMetadata /\ lastSample.kind # "none") => liveTime >= SourceCurrentTime

\* C13: the selection of the tracks is deduplicated and coalesced: at most one
\* deferred request is scheduled at a time and none once the Source is closed; a
\* call of _setTracks is made on a Source that is not closed, carries the latest
\* selection and leaves no other request behind; a running Source whose selection
\* differs from what the transport was given has its request scheduled; and a step
\* that leaves the selection as it was (the assignment of the same selection)
\* schedules nothing.
TrackSelectionCoalesced ==
    /\ [](/\ trackTimers <= 1
          /\ (closed => trackTimers = 0)
          /\ (setTracksCall # NoCall =>
                  (~closed /\ setTracksCall = selectedTracks /\ trackTimers = 0))
          /\ ((running /\ ~closed /\ wireTracks # selectedTracks) => trackTimers = 1))
    /\ [][selectedTracks' = selectedTracks => trackTimers' <= trackTimers]_vars

\* two assignments (audio and video) made on a running Source wait for one request
TwoAssignmentsPending ==
    /\ running
    /\ ~closed
    /\ trackTimers = 1
    /\ wireTracks.audio # selectedTracks.audio
    /\ wireTracks.video # selectedTracks.video

\* C15: the requested video rendition is raised only by the step that ends a round
\* in which a request of the upper rendition was sent, every request of the round
\* having returned with the controller of the upper rendition not aborted, no stall
\* and no abort of the video request since the round began; the rendition raised by
\* one step is the one the request was sent for.
RaisedOnlyAfterProbe ==
    [][(/\ requestedTracks.video \in 0..(NVideo - 1)
        /\ requestedTracks'.video \in 0..(NVideo - 1)
        /\ requestedTracks'.video < requestedTracks.video)
       => /\ pc = "download"
          /\ Cardinality(inflight) = 1
          /\ upController = "live"
          /\ ~stall
          /\ ~videoAborted
          /\ requestedTracks'.video = Up(requestedTracks.video)
          /\ \E r \in roundRequests : r.kind = "up" /\ r.track = requestedTracks'.video
          /\ decision'.branch = "up"]_vars

\* the loop has raised the rendition and requests the video of the upper one
RenditionRaised ==
    /\ decision.branch = "up"
    /\ decision.to < decision.from
    /\ \E r \in issued : r.kind = "video" /\ r.track = decision.to

\* the selection made by a step is automatic and not skipped
Selects == decision'.branch \in {"limit", "up", "low", "keep"}

\* the bandwidth of the audio track requested
AudioBandwidthOf(tracks) == IF tracks.audio = NVideo THEN AudioBandwidth ELSE 0

PinnedTrackRequested ==
    selectedTracks.video \in 0..(NVideo - 1)
    => /\ \A r \in issued : r.kind = "video" => r.track = selectedTracks.video
       /\ decision.branch \in {"none", "skipped", "manual"}

\* the HEAD request of the frame skipping for the sequence probed, sent by the step
ProbeSent ==
    \E r \in issued' : r.kind = "probe" /\ r.method = "HEAD" /\ r.sequence = newSequence'

\* C17: the frame skipping starts in unreliable mode, state LOW and buffering, with
\* the HEAD request of sequence n + floor((liveTime - currentTime) /
\* maxSequenceDuration); a failed probe is followed by the probe of the sequence
\* before (the HEAD request being sent unless the controller is aborted) down to
\* n + 1; the downloads that follow the probes target the sequence probed when its
\* probe was the last, or n when every probe down to n + 1 has failed; the sequence
\* downloaded never goes back, so no sequence skipped is requested.
SkipProbesDownward ==
    [][/\ (pc # "probe" /\ pc' = "probe")
          => /\ ~reliable /\ bufferState = "LOW" /\ buffering
             /\ newSequence' = sequence'
                   + ((liveTime' - SourceCurrentTime') \div maxSequenceDuration')
             /\ newSequence' > sequence'
             /\ ProbeSent
       /\ (pc = "probe" /\ pc' = "probe")
          => /\ sequence' = sequence
             /\ IF skipFixLiveTime' # skipFixLiveTime
                THEN /\ skipFixLiveTime' = skipFixLiveTime - maxSequenceDuration
                     /\ newSequence' = newSequence - 1
                     /\ newSequence' > sequence
                     /\ audioAborted \/ ProbeSent
                ELSE newSequence' = newSequence
       /\ (pc = "probe" /\ pc' = "download")
          => \/ sequence' = newSequence
             \/ sequence' = sequence /\ newSequence = sequence + 1
       /\ sequence # Undefined => sequence' >= sequence
       /\ \A r \in issued' : r.kind \in {"audio", "video"} => r.sequence = sequence']_vars

\* sequences n and n + 1 are skipped: the sequence before n was the last one
\* completed, and the video of n + 2 is requested after its probe
TwoSequencesSkipped ==
    /\ pc = "download"
    /\ prevVideoSequence # Undefined
    /\ sequence = prevVideoSequence + 3
    /\ \E r \in inflight : r.kind = "video" /\ r.method = "GET" /\ r.sequence = sequence

\* C12 as stated: without a new metadata, Metadata.liveTime read at successive
\* instants never decreases, whatever samples are ingested and whatever probes of the
\* frame skipping succeed or fail.
LiveTimeNonDecreasing == [][hasMetadata => liveTime' >= liveTime]_vars

\* C12: without a new metadata, Metadata.liveTime read at successive instants
\* decreases only at the end of a frame skipping with failed probes, by
\* maxSequenceDuration for every failed probe; neither the ingestion of a sample, nor
\* a probe answered ok, nor the wall clock lowers it.
LiveTimeLoweredBySkipOnly ==
    [][(hasMetadata /\ liveTime' < liveTime)
       => /\ pc = "probe"
          /\ pc' = "download"
          /\ skipFixLiveTime' \in {skipFixLiveTime, skipFixLiveTime - maxSequenceDuration}
          /\ skipFixLiveTime' < 0
          /\ liveTime' = liveTime + skipFixLiveTime']_vars

\* the frame skipping has ended with failed probes and has lowered the live time
LiveTimeLowered ==
    /\ hasMetadata
    /\ pc = "download"
    /\ skipFixLiveTime < 0
    /\ issued # {}

\* C18 as stated: once the Source is closed, the controller of every request in
\* flight is aborted, the listeners of BufferState and Stall are removed, and no
\* request is sent or sent again.
ClosedSourceQuiet ==
    closed => /\ \A r \in inflight : Aborted(r.kind)
              /\ ~subscribed
              /\ issued = {}

\* C19: a read finishes one packet at most; a media packet is emitted with the time
\* of its header when the reader holds no next time for its track (the first packet
\* after the creation or after INIT TRACKS, whose header carries the time) and with
\* the next time of the track otherwise, which is the time the sender meant; the next
\* time of the track becomes the time emitted plus the duration; INIT TRACKS leaves no
\* next time for any track.
TimesReconstructed ==
    /\ [](Len(parsed) <= 1 /\ emitted = EventsOf(parsed))
    /\ [][parsed' # <<>>
          => LET p == parsed'[1]
                 e == emitted'[1]
             IN  IF p.kind = "init"
                 THEN nextTimes' = NoTimes
                 ELSE /\ e.time = IF nextTimes[p.track] # Undefined
                                  THEN nextTimes[p.track]
                                  ELSE p.time
                      /\ nextTimes[p.track] = Undefined => p.abs
                      /\ e.time = p.time
                      /\ nextTimes' = [nextTimes EXCEPT ![p.track] = e.time + e.duration]]_vars

\* a packet whose header carries no time is emitted with the time that follows the
\* packet before it on its track
TimeFollowsPacketBefore ==
    /\ parsed # <<>>
    /\ parsed[1].kind = "media"
    /\ ~parsed[1].abs
    /\ emitted[1].time = MaxPacketTime + 1
    /\ nextTimes[parsed[1].track] = emitted[1].time + emitted[1].duration

\* C35: with sizes, the reader does not see where a stream of complete packets is cut:
\* whatever the chunks (cut inside the size byte, a header or a payload, or holding
\* the end of a packet and the start of the next), every read emits exactly the events
\* of the packets it finishes, in the order sent and with the times the sender meant,
\* and once every byte is read no packet, byte or header is left and the next times
\* are those of the sender, as after a read of the stream in one piece.
ChunkBoundariesInvisible ==
    /\ emitted = EventsOf(parsed)
    /\ wire = <<>> => /\ unread = <<>>
                      /\ readerData = <<>>
                      /\ ~readerHeader.set
                      /\ nextTimes = senderTimes

\* a chunk ended a packet and stopped inside the payload of the next one
ChunkCutsNextPayload ==
    /\ withSize
    /\ Len(parsed) = 1
    /\ Len(unread) = 1
    /\ readerHeader.set
    /\ readerData # <<>>
    /\ wire # <<>>

\* the size written for a box of a given type, 0 if there is none
DeclaredSize(boxes, type) ==
    IF \E i \in DOMAIN boxes : boxes[i].type = type
    THEN boxes[CHOOSE i \in DOMAIN boxes : boxes[i].type = type].declared
    ELSE 0

\* C36: in the initialization segment and in every fragment written, the size written
\* for each box is the number of bytes written from its size field to the end of its
\* content, whatever the kind of the track, the scheme, the length of the IV, the
\* configuration and the subsamples; the sizes of moof and traf are those of their
\* header and their children, and the data offset of trun (moof size + 8), counted
\* from the start of moof, is the offset of the first byte of the sample data.
BoxSizesExact ==
    LET f == cmaf.fragment.boxes
    IN  /\ \A i \in DOMAIN cmaf.init :
              cmaf.init[i].declared = cmaf.init[i].end - cmaf.init[i].at
        /\ \A i \in DOMAIN f : f[i].declared = f[i].end - f[i].at
        /\ f # <<>>
              => /\ DeclaredSize(f, "moof") = 8 + DeclaredSize(f, "mfhd") + DeclaredSize(f, "traf")
                 /\ DeclaredSize(f, "traf") =
                       8 + DeclaredSize(f, "tfhd") + DeclaredSize(f, "tfdt")
                       + DeclaredSize(f, "trun") + DeclaredSize(f, "saiz")
                       + DeclaredSize(f, "saio") + DeclaredSize(f, "senc")
                 /\ cmaf.fragment.dataOffset = DeclaredSize(f, "moof") + 8
                 /\ cmaf.fragment.dataOffset = cmaf.fragment.dataAt

\* a protected video track was initialized with a configuration and a fragment was
\* written with subsamples and the saiz, saio and senc boxes
ProtectedFragmentWritten ==
    /\ cmaf.isVideo
    /\ DeclaredSize(cmaf.init, "sinf") > 0
    /\ DeclaredSize(cmaf.init, "avcC") > 8
    /\ DeclaredSize(cmaf.fragment.boxes, "saiz") = 18
    /\ DeclaredSize(cmaf.fragment.boxes, "senc") = 16 + 16 + 2 + 6 * MaxSubSamples
    /\ cmaf.fragment.dataAt > 0

\* C39 as stated: a callback of a session never stops another session nor tells
\* another session that its media keys are ready, and at most one Source that is not
\* closed is attached to the Player.
SessionsIsolated ==
    /\ sessions.stopped.by # 0 => sessions.stopped.by = sessions.stopped.session
    /\ sessions.keysReady.by # 0 => sessions.keysReady.by = sessions.keysReady.engine
    /\ Cardinality(sessions.openSources) <= 1
    /\ sessions.openSources \subseteq {sessions.source}

LastChanceRequests ==
    LET d == download
        gets == {i \in 1..Len(d.requests) : d.requests[i].method = "GET"}
    IN  d.onlyKeyFrame =>
           /\ d.requests[1].method = "HEAD"
           /\ \A i \in gets : /\ d.head.answered /\ d.head.ok /\ Truthy(d.head.first)
                               /\ d.requests[i].range = d.head.first - 1
           /\ (d.head.answered /\ d.head.ok /\ ~Truthy(d.head.first))
                  => /\ gets = {}
                     /\ d.pc \in {"returned", "handled"}
                     /\ d.pc = "handled" => d.closeError = "Malformed payload"

\* C20 as stated: on a framed transport, the read of a message that holds a complete
\* packet emits the events of that packet.
MessageEmitsPacket == readPacket # NoPacket => emitted = Events(readPacket)


\* the distance between the time of the sample read and the currentTime given
FixDelta == IF fixCall.current >= 0 THEN fixCall.read.time - fixCall.current ELSE 0

\* C24: every video sample after the first one is moved to the end time of the video
\* sample before it, whatever the sign and the size of the distance; where it is
\* moved its duration becomes max(1, duration + delta); the sample handed over
\* starts at that end time and the video time after it is its own end
VideoTimelineContinuous ==
    (fixCall.type = "video" /\ fixCall.current >= 0)
    => /\ fixCall.fixed.time = fixCall.current
       /\ FixDelta # 0 => fixCall.fixed.duration = Max(1, fixCall.read.duration + FixDelta)
       /\ FixDelta = 0 => fixCall.fixed.duration = fixCall.read.duration
       /\ fixCall.delivered.time = fixCall.current
       /\ fixCall.delivered.duration >= fixCall.fixed.duration
       /\ videoTime = fixCall.delivered.time + fixCall.delivered.duration

VideoHoleOverToleranceFilled ==
    /\ fixCall.type = "video"
    /\ fixCall.current >= 0
    /\ FixDelta > TIMESTAMP_HOLE_TOLERANCE
    /\ fixCall.delivered.time = fixCall.current
    /\ fixCall.delivered.duration = fixCall.read.duration + FixDelta

\* C25 as stated: an audio sample is moved to the end time of the audio sample
\* before it exactly when the distance is negative or at most 7 ms, and not 0
AudioRepairedUpToTolerance ==
    (fixCall.type = "audio" /\ fixCall.current >= 0)
    => ((fixCall.fixed.time # fixCall.read.time)
        <=> (FixDelta # 0 /\ FixDelta <= TIMESTAMP_HOLE_TOLERANCE))

\* C26 as stated: an audio hole of exactly 7 ms is left (the sample keeps its time)
\* and an audio hole of 8 ms is filled (the sample is moved back)
AudioBoundarySevenEight ==
    (fixCall.type = "audio" /\ fixCall.current >= 0)
    => /\ FixDelta = TIMESTAMP_HOLE_TOLERANCE => fixCall.fixed.time = fixCall.read.time
       /\ FixDelta = TIMESTAMP_HOLE_TOLERANCE + 1 => fixCall.fixed.time = fixCall.current

\* C26: an audio hole of exactly 7 ms is left and so is one of 8 ms, the sample
\* keeping its time and its duration; a hole of 6 ms is filled, the sample being
\* moved back and made 6 ms longer
AudioBoundarySixSeven ==
    (fixCall.type = "audio" /\ fixCall.current >= 0)
    => /\ FixDelta \in {TIMESTAMP_HOLE_TOLERANCE, TIMESTAMP_HOLE_TOLERANCE + 1}
          => /\ fixCall.fixed = fixCall.read
             /\ audioTime = fixCall.read.time + fixCall.read.duration
       /\ FixDelta = TIMESTAMP_HOLE_TOLERANCE - 1
          => /\ fixCall.fixed.time = fixCall.current
             /\ fixCall.fixed.duration = fixCall.read.duration + FixDelta

AudioHoleOfEightLeft ==
    /\ fixCall.type = "audio"
    /\ fixCall.current >= 0
    /\ FixDelta = TIMESTAMP_HOLE_TOLERANCE + 1
    /\ fixCall.fixed.time = fixCall.read.time


\* the sequences of the audio and video requests of a round
RoundSequences(requests) == {r.sequence : r \in {q \in requests : q.kind \in {"audio", "video"}}}

\* the step starts a round of downloads after the end of the round before
RoundStarts ==
    /\ pc' = "download"
    /\ roundRequests # {}
    /\ pc = "probe" \/ (pc = "download" /\ answered'.kind = "round")

\* C28: the frame skipping sends its first HEAD request only when the source is
\* unreliable, the buffer state LOW, the playing object buffering, and the
\* max-sequence-duration and the metadata known; a round requests a sequence more
\* than one after the sequence of the round before only at the ok answer of the HEAD
\* request of that sequence; a round that follows the round before without a probe
\* (as every round of a reliable source) requests the same or the next sequence.
SkipOnlyAfterProbe ==
    [][/\ (pc # "probe" /\ pc' = "probe")
          => /\ ~reliable /\ bufferState = "LOW" /\ buffering
             /\ maxSequenceDuration' # Undefined
             /\ hasMetadata'
       /\ RoundStarts
          => \A old \in RoundSequences(roundRequests), new \in RoundSequences(roundRequests') :
                /\ new >= old
                /\ new > old + 1
                   => /\ pc = "probe"
                      /\ answered'.kind = "probe" /\ answered'.ok = 1 /\ answered'.to = new
                /\ pc = "download" => new \in {old, old + 1}]_vars

RoundSkipsSequence ==
    /\ pc = "download"
    /\ answered.kind = "probe" /\ answered.ok = 1
    /\ prevVideoSequence # Undefined
    /\ RoundSequences(roundRequests) = {sequence}
    /\ sequence >= prevVideoSequence + 2

\* C29 as stated: a HEAD request of the frame skipping is sent only while
\* liveTime - currentTime is strictly greater than maxSequenceDuration, and the
\* frame skipping changes the sequence only then.
ProbeOnlyOverOneSequence ==
    [][/\ (\E r \in issued' : r.kind = "probe")
          => liveTime' - SourceCurrentTime' > maxSequenceDuration'
       /\ (answered'.kind = "probe" /\ sequence' # sequence)
          => liveTime - SourceCurrentTime > maxSequenceDuration]_vars

\* C30 as stated: the end of a round moves the sequence on by one when a response is
\* ok and leaves it otherwise, and the round after a round without an ok response
\* requests the same sequence again.
SameSequenceAfterFailedRound ==
    [][/\ answered'.kind = "round"
          => answered'.to = sequence + (IF answered'.ok > 0 THEN 1 ELSE 0)
       /\ (/\ pc' = "download"
           /\ roundRequests # {}
           /\ \/ pc = "download" /\ answered'.kind = "round" /\ answered'.ok = 0
              \/ pc = "probe" /\ roundOk = 0)
          => RoundSequences(roundRequests') \subseteq RoundSequences(roundRequests)]_vars

\* C30: the end of a round whose responses bear no error moves the sequence on by
\* exactly one when at least one response is ok, however many are, and leaves it
\* otherwise; a round that follows without a probe of the frame skipping requests
\* that sequence; otherwise the sequence changes at the ok answer of a probe only,
\* to the sequence probed, and it never decreases.
RoundAdvancesByOne ==
    [][/\ answered'.kind = "round"
          => /\ answered'.from = sequence
             /\ answered'.ok = roundOk \/ answered'.ok = roundOk + 1
             /\ answered'.to = sequence + (IF answered'.ok > 0 THEN 1 ELSE 0)
             /\ sequence' = answered'.to
             /\ pc' = "download" => RoundSequences(roundRequests') \subseteq {answered'.to}
       /\ sequence # Undefined
          => /\ sequence' >= sequence
             /\ sequence' # sequence
                => \/ answered'.kind = "round" /\ answered'.ok > 0
                   \/ answered'.kind = "probe" /\ answered'.ok = 1
                      /\ sequence' = answered'.to]_vars

TwoResponsesOkAdvanceByOne ==
    /\ answered.kind = "round"
    /\ answered.ok >= 2
    /\ sequence = answered.from + 1


\* the tracks of a list are linked in the order of the list, both ways, its first
\* track having no up and its last no down
ChainOf(list) ==
    \A i \in 1..Len(list) :
        /\ mediaTracks[list[i]].up = IF i = 1 THEN Undefined ELSE list[i - 1]
        /\ mediaTracks[list[i]].down = IF i = Len(list) THEN Undefined ELSE list[i + 1]

\* each track is once in the list of its type and in no other list
ListsOfTypes ==
    \A id \in DOMAIN mediaTracks :
        \A type \in {TypeData, TypeAudio, TypeVideo} :
            Cardinality({i \in 1..Len(metadata[Medias(type)]) : metadata[Medias(type)][i] = id})
                = IF mediaTracks[id].type = type THEN 1 ELSE 0

\* C21 as stated: after Metadata.fix, up and down are symmetric, each list is in the
\* order of its chain from the track of highest bandwidth, and the bandwidth of
\* track.up is strictly greater than the bandwidth of the track
ChainsStrictlyOrdered ==
    /\ ListsOfTypes
    /\ \A type \in {TypeData, TypeAudio, TypeVideo} : ChainOf(metadata[Medias(type)])
    /\ \A id \in DOMAIN mediaTracks :
          /\ mediaTracks[id].up # Undefined
             => mediaTracks[mediaTracks[id].up].bandwidth > mediaTracks[id].bandwidth
          /\ mediaTracks[id].down # Undefined
             => mediaTracks[id].bandwidth > mediaTracks[mediaTracks[id].down].bandwidth

\* C21: after the fix of a Metadata built from a manifest, each track is once in the
\* list of its type, each list and the Map are sorted by descending bandwidth (the
\* tracks of the same bandwidth in the order of the manifest), the tracks of a list
\* are linked both ways in the order of the list, so that the bandwidth of track.up
\* is at least the bandwidth of the track and its own at least the one of track.down,
\* and the first track of a list has the highest bandwidth of its type.
ChainsOrdered ==
    /\ ListsOfTypes
    /\ Range(metadata.tracks) = DOMAIN mediaTracks
    /\ \A type \in {TypeData, TypeAudio, TypeVideo} :
          LET list == metadata[Medias(type)]
          IN  /\ ChainOf(list)
              /\ \A i, j \in 1..Len(list) :
                    i < j => /\ mediaTracks[list[i]].bandwidth >= mediaTracks[list[j]].bandwidth
                             /\ mediaTracks[list[i]].bandwidth = mediaTracks[list[j]].bandwidth
                                => list[i] < list[j]
    /\ \A id \in DOMAIN mediaTracks :
          /\ mediaTracks[id].up # Undefined
             => /\ mediaTracks[mediaTracks[id].up].bandwidth >= mediaTracks[id].bandwidth
                /\ mediaTracks[mediaTracks[id].up].down = id
          /\ mediaTracks[id].down # Undefined
             => /\ mediaTracks[id].bandwidth >= mediaTracks[mediaTracks[id].down].bandwidth
                /\ mediaTracks[mediaTracks[id].down].up = id

\* three video tracks given in ascending bandwidth, two of them of the same bandwidth
ThreeVideoTracksChained ==
    /\ metadata.videoTracks = <<2, 0, 1>>
    /\ mediaTracks[0].bandwidth = mediaTracks[1].bandwidth
    /\ mediaTracks[2].down = 0
    /\ mediaTracks[1].up = 0

\* C22: once MediaPlayback.close() has run, every MediaBuffer that was made, audio and
\* video, is aborted, both buffers are released so that closed is true, and onClose has
\* been emitted exactly once however many times close is called
ClosedPlaybackReleasesAll ==
    ~mediaPlayback.mediaSource =>
        /\ \A i \in DOMAIN mediaPlayback.buffers : ~mediaPlayback.buffers[i].buffer
        /\ MediaPlaybackClosed(mediaPlayback)
        /\ mediaPlayback.onClose = 1

\* C23: a try() called right after a try() that returned true, no time having passed,
\* is not made to wait for the retry delay: it returns true as well
TryRightAfterSuccessSucceeds ==
    [][(/\ retryCall.op = "try" /\ retryCall.result
        /\ retryCall'.op = "try" /\ now' = now
        /\ retry' # retry)
       => retryCall'.result]_vars

\* the audio and the video track of the Source
ActiveTracks == {ingestion.tracks.audio, ingestion.tracks.video}

FixAgainChangesNothing ==
    [][(fixes >= 1 /\ fixes' = fixes + 1)
       => /\ Range(metadata'.tracks) = Range(metadata.tracks)
          /\ metadata'.audioTracks = metadata.audioTracks
          /\ metadata'.videoTracks = metadata.videoTracks
          /\ metadata'.dataTracks = metadata.dataTracks
          /\ mediaTracks' = mediaTracks
          /\ \A id \in DOMAIN mediaTracks' :
                 mediaTracks'[id].up # id /\ mediaTracks'[id].down # id]_vars

\* the delay one step up and one step down, within the step and the cap
StepUp(delay) ==
    IF delay + LEARNING_TRY_STEP <= MAXIMUM_TRY_DELAY
    THEN delay + LEARNING_TRY_STEP ELSE MAXIMUM_TRY_DELAY

StepDown(delay) ==
    IF delay - LEARNING_TRY_STEP >= LEARNING_TRY_STEP
    THEN delay - LEARNING_TRY_STEP ELSE LEARNING_TRY_STEP

\* C37: over the calls of try(), raise() and reset(), tryDelay stays within the step
\* and the cap; raise() clears the appreciation time and the success and moves the
\* delay one step up if the last try had succeeded, and not at all otherwise, so that
\* after a raise() the next raise() changes nothing unless a try succeeds in between;
\* try() moves the delay, one step down, only when it starts an appreciation period
\* with the success still set; reset() gives back the step, no success and no
\* appreciation time
AdaptiveRetryDelayRule ==
    [][/\ retry'.tryDelay \in LEARNING_TRY_STEP..MAXIMUM_TRY_DELAY
       /\ (retryCall'.op = "raise") =>
              /\ retry'.tryDelay = IF retry.success THEN StepUp(retry.tryDelay)
                                   ELSE retry.tryDelay
              /\ ~retry'.success /\ retry'.appreciationTime = 0
       /\ (retryCall.op = "raise" /\ retryCall'.op = "raise") =>
              retry'.tryDelay = retry.tryDelay
       /\ (retryCall'.op = "try") =>
              retry'.tryDelay = IF retry.appreciationTime = 0 /\ retry.success
                                THEN StepDown(retry.tryDelay) ELSE retry.tryDelay
       /\ (retryCall'.op = "reset") =>
              retry' = [tryDelay |-> LEARNING_TRY_STEP, appreciationTime |-> 0,
                        success |-> FALSE]]_vars

\* a raise() after a successful try with the delay at the cap
RaisedAtTheCap ==
    /\ retryCall.op = "raise"
    /\ retry.tryDelay = MAXIMUM_TRY_DELAY

\* C31: no request of any method is sent on the upper rendition when the byte rate it
\* takes over the one of the video track, up.bandwidth - bandwidth, is not positive
NoUpRequestWithoutExtraRate ==
    \A r \in issued :
        r.kind = "up" => Bandwidth(r.track) - Bandwidth(r.track + 1) > 0

\* C34: with the listeners of _play registered, a change of the buffer state aborts
\* the emulation of the upper rendition when the new state is LOW, and nothing else:
\* the audio and the video controllers are left as they are, and so is the emulation
\* on another state; a stall of an unreliable Source aborts the audio, the video and
\* the emulation together; a stall of a reliable Source aborts neither the audio nor
\* the video, and not the emulation either unless the stall brings the state to LOW
EventReactions ==
    [][/\ (PlayingBufferState /\ subscribed) =>
              /\ audioAborted' = audioAborted
              /\ videoAborted' = videoAborted
              /\ upController' = IF bufferState' = "LOW" /\ upController = "live"
                                 THEN "aborted" ELSE upController
       /\ (PlayingStall /\ subscribed /\ ~reliable) =>
              /\ audioAborted' /\ videoAborted'
              /\ upController' \in {"none", "aborted"}
              /\ (upController = "live" => upController' = "aborted")
       /\ (PlayingStall /\ subscribed /\ reliable) =>
              /\ audioAborted' = audioAborted
              /\ videoAborted' = videoAborted
              /\ (bufferState = "LOW" => upController' = upController)]_vars

\* a stall of an unreliable Source has aborted the audio, the video and a live emulation
StallAbortedAllThree ==
    /\ subscribed /\ ~reliable /\ stall
    /\ audioAborted /\ videoAborted /\ upController = "aborted"
    /\ pc = "download"

\* the handler has called goLive
WentLive(evs) == \E i \in DOMAIN evs : evs[i].e = "goLive"

\* C38 as stated: after a progress that has called goLive and has evaluated the state
\* on the position reached, the state is never HIGH
NeverHighAfterGoLive ==
    (WentLive(events) /\ HasEvent("evaluate")) => bufferState # "HIGH"

\* C38: a handler that calls goLive leaves the playhead at max(startTime, endTime -
\* MIDDLE), hence with a buffer amount of MIDDLE at most; the evaluation of the state
\* that follows in the same handler does not set the state to HIGH; the 'seeked' that
\* follows a goLive does not call goLive again; and with a reliable Source goLive is
\* only called by a progress that finds the playhead under startTime
GoLiveRule ==
    [][WentLive(events') =>
          /\ currentTime' = Max(PlayerStartTime(Cur)', PlayerEndTime(Cur)' - bufferLimitMiddle')
          /\ BufferAmount(Cur)' <= bufferLimitMiddle'
          /\ \A i \in DOMAIN events' :
                 ~(events'[i].e = "BufferState" /\ events'[i].new = "HIGH")
          /\ ~(WentLive(events) /\ VideoSeeked)
          /\ PlayerReliable(Cur) => (~VideoSeeked /\ currentTime < PlayerStartTime(Cur)')]_vars

\* a progress of the buffer has called goLive, which has left a buffer amount of MIDDLE,
\* and has then evaluated the state
ProgressWentLive ==
    /\ WentLive(events) /\ HasEvent("evaluate")
    /\ BufferAmount(Cur) = bufferLimitMiddle /\ bufferLimitMiddle > 0

====
